---- MODULE Spec2Model ----
(***************************************************************************)
(* A model of the request/response lifecycle of the Grok chat agent        *)
(* (agent.py): the retry engine _make_api_request, the streaming decoder   *)
(* _parse_streaming_response, the conversation store (add_message,         *)
(* clear_history, search_history, get_statistics), the payload builder,    *)
(* file inclusion, the configuration record (config.py), the turn call_api *)
(* and the JSON export (export.py).                                        *)
(*                                                                         *)
(* Text is a sequence of one-character strings, so that concatenation,     *)
(* strip(), lower() and the placeholder scan are computed, not assumed; a  *)
(* literal fragment the program inserts into a text is kept as one element.*)
(* A float is counted in tenths.                                           *)
(***************************************************************************)
EXTENDS Integers, Sequences, FiniteSets, TLC

VARIABLES
    pc,               \* where the agent is: "request", "returned", "raised", ...
    attempt,          \* loop variable of _make_api_request (0-based)
    calls,            \* the outcome of every requests.post issued by the current call
    sleeps,           \* every time.sleep of the current call: [after, delay]
    result,           \* what _make_api_request returned or raised
    max_history_size, \* self.config.max_history_size
    messages,         \* self.messages, the in-memory conversation log
    loaded,           \* the log as _load_history read it at agent start
    disk,             \* the file history.json
    backups,          \* the files backups/history_<stamp>.json, sorted by name
    now,              \* the last reading of datetime.now() given to a message
    second,           \* the wall clock in whole seconds (the stamp of a backup)
    appended,         \* every message handed to self.messages.append, in order
    assistant_message,\* the accumulator of _parse_streaming_response
    yielded,          \* the increments the decoder has yielded, in order
    lines,            \* the lines response.iter_lines has delivered, in order
    ended,            \* why the decoder left its loop
    clears,           \* every completed clear_history: what it found and what it left
    config,           \* self.config (its max_history_size is also the variable above)
    config_file,      \* the file config.yaml
    payload,          \* what the last call of _build_api_payload returned, if it did
    chunks,           \* the chunks call_api itself has yielded in the current turn
    turn,             \* the current turn: its inputs and the log as it found it
    args,             \* the arguments of the function under study
    ret               \* what that function returned or raised

transportVars == <<attempt, calls, sleeps, result>>

storeVars ==
    <<max_history_size, messages, loaded, disk, backups, now, second, appended, clears>>

decoderVars == <<assistant_message, yielded, lines, ended>>

configVars == <<config, config_file>>

turnVars == <<payload, chunks, turn>>

callVars == <<args, ret>>

vars == <<pc, transportVars, storeVars, decoderVars, configVars, turnVars, callVars>>

(***************************************************************************)
(* Text                                                                    *)
(***************************************************************************)

\* The characters str.strip() removes that the model's texts can hold.
IsSpace(c) == c \in {" ", "\n", "\t"}

RECURSIVE LStrip(_)
LStrip(s) ==
    IF s = <<>> THEN s
    ELSE IF IsSpace(Head(s)) THEN LStrip(Tail(s))
    ELSE s

RECURSIVE RStrip(_)
RStrip(s) ==
    IF s = <<>> THEN s
    ELSE IF IsSpace(s[Len(s)]) THEN RStrip(SubSeq(s, 1, Len(s) - 1))
    ELSE s

\* str.strip()
Strip(s) == RStrip(LStrip(s))

\* str.lower(), for the capitals the model's texts hold.
Lower(s) ==
    [i \in 1..Len(s) |->
        CASE s[i] = "A" -> "a"
          [] s[i] = "H" -> "h"
          [] s[i] = "I" -> "i"
          [] s[i] = "P" -> "p"
          [] s[i] = "Q" -> "q"
          [] s[i] = "Y" -> "y"
          [] OTHER -> s[i]]

\* The least index i >= from with s[i] = c, or 0.
RECURSIVE IndexFrom(_, _, _)
IndexFrom(s, c, from) ==
    IF from > Len(s) THEN 0
    ELSE IF s[from] = c THEN from
    ELSE IndexFrom(s, c, from + 1)

\* The greatest index i <= from with s[i] = c, or 0 (str.rfind).
RECURSIVE LastIndex(_, _, _)
LastIndex(s, c, from) ==
    IF from < 1 THEN 0
    ELSE IF s[from] = c THEN from
    ELSE LastIndex(s, c, from - 1)

\* How a function ends: it returns a value, or an exception escapes it.
Returns(value) == [kind |-> "return", value |-> value]

Raises(cls) == [kind |-> "raise", value |-> cls]

(***************************************************************************)
(* Configuration record: config.AgentConfig                                *)
(***************************************************************************)

\* A float literal n.0, in tenths.
Tenths(n) == n * 10

\* Optional[int]: None, or an integer.
None == <<>>

Some(n) == <<n>>

NoText == <<>>

\* AgentConfig.system_prompt: the dataclass default.
default_system_prompt == <<"h", "e", "l", "p", "f", "u", "l">>

\* The dataclass AgentConfig.  max_history_size is a field of it; the
\* timestamps created_at and updated_at are left out.
AgentConfig(model, temperature, max_tokens, max_history, stream, system_prompt, top_p) ==
    [model |-> model, temperature |-> temperature, max_tokens |-> max_tokens,
     max_history_size |-> max_history, stream |-> stream,
     system_prompt |-> system_prompt, top_p |-> top_p]

\* A check of the temperature against an open interval.
Validate_strict(cfg) ==
    IF ~(Tenths(0) < cfg.temperature /\ cfg.temperature < Tenths(2)) THEN FALSE
    ELSE IF cfg.max_tokens # None /\ cfg.max_tokens[1] <= 0 THEN FALSE
    ELSE IF cfg.max_history_size <= 0 THEN FALSE
    ELSE IF ~(Tenths(0) <= cfg.top_p /\ cfg.top_p <= Tenths(1)) THEN FALSE
    ELSE TRUE

\* AgentConfig.validate
Validate(cfg) ==
    IF ~(Tenths(0) <= cfg.temperature /\ cfg.temperature <= Tenths(2)) THEN FALSE
    ELSE IF cfg.max_tokens # None /\ cfg.max_tokens[1] <= 0 THEN FALSE
    ELSE IF cfg.max_history_size <= 0 THEN FALSE
    ELSE IF ~(Tenths(0) <= cfg.top_p /\ cfg.top_p <= Tenths(1)) THEN FALSE
    ELSE TRUE

\* AgentConfig.max_history_size: the dataclass default.
default_max_history_size == 1000

\* SUPPORTED_MODELS[...]['max_tokens'], the same for the three models.
model_max_tokens == 32768

\* The configuration _load_config creates when config.yaml gives none:
\* AgentConfig(model=model_name, max_tokens=model_info['max_tokens']).
DefaultConfig ==
    AgentConfig("grok-4-latest", Tenths(0), Some(model_max_tokens),
                default_max_history_size, TRUE, default_system_prompt, Tenths(1))

\* The value of a variable that holds nothing yet.
Nothing == [kind |-> "none"]

\* No arguments: no function is under study.
NoCall == [fn |-> "none"]

\* No turn has begun, and the function under study has the arguments a and
\* has not returned.
TurnIdle(a) ==
    /\ payload = Nothing
    /\ chunks = <<>>
    /\ turn = Nothing
    /\ args = a
    /\ ret = Nothing

(***************************************************************************)
(* Conversation store: GrokChatAgent.add_message, _save_history and the    *)
(* helpers of utils.py it calls                                            *)
(***************************************************************************)

\* The largest history cap the model configures.
MaxHistorySize == 2

\* The longest log found in history.json at agent start.
MaxLoaded == 2

\* The number of add_message calls the store specification follows.
MaxAppends == 3

\* create_backup(..., max_backups=10)
max_backups == 10

\* The values of max_history_size an agent runs with.  _load_config builds
\* AgentConfig(**config_data) from config.yaml and nothing calls validate(),
\* so zero and negative caps are accepted like positive ones.
HistorySizes == -1 .. MaxHistorySize

\* The message dict built by add_message.
Message(role, content, timestamp) ==
    [role |-> role, content |-> content, timestamp |-> timestamp, metadata |-> "{}"]

\* A log written by an earlier session: n messages, roles alternating,
\* timestamps 1 .. n.
StoredLog(n) ==
    [i \in 1..n |->
        Message(IF i % 2 = 1 THEN "user" ELSE "assistant", <<"o", "l", "d">>, i)]

\* How far the wall clock moves, in whole seconds, before a save.
Advances == {0, 1}

\* What saving history.json does: it works, the copy to the backup fails
\* (create_backup reports it and the file is written all the same), open()
\* raises, json.dump raises after open() has truncated the file, or both
\* the copy and json.dump fail (a full disk).
SaveOutcomes == {"ok", "copy_fails", "open_fails", "write_fails", "copy_and_write_fail"}

Absent == [state |-> "absent", data |-> <<>>]

File(data) == [state |-> "ok", data |-> data]

Partial == [state |-> "partial", data |-> <<>>]

\* Python's seq[start:] for any integer start.
SliceFrom(seq, start) ==
    LET n == Len(seq)
        first == IF start < 0
                    THEN (IF n + start < 0 THEN 0 ELSE n + start)
                    ELSE (IF start > n THEN n ELSE start)
    IN SubSeq(seq, first + 1, n)

\* A cap that pins the first message of the log and evicts from behind it.
Truncate_pins_first(msgs, cap) ==
    IF Len(msgs) > cap /\ cap > 0
        THEN <<Head(msgs)>> \o SubSeq(msgs, Len(msgs) - cap + 2, Len(msgs))
        ELSE msgs

\* A cap that keeps the oldest messages instead of the newest.
Truncate_keeps_oldest(msgs, cap) ==
    IF Len(msgs) > cap
        THEN SubSeq(msgs, 1, IF cap < 0 THEN 0 ELSE cap)
        ELSE msgs

\* if len(self.messages) > cap: self.messages = self.messages[-cap:]
Truncate(msgs, cap) ==
    IF Len(msgs) > cap
        THEN SliceFrom(msgs, 0 - cap)
        ELSE msgs

\* utils.create_backup for an existing file: copy it to the backup named by
\* the current second (a backup of that name is overwritten), then delete
\* the oldest backups beyond max_backups.  Stamps never decrease, so the new
\* name sorts last.
CreateBackup(bks, file, stamp) ==
    LET entry == [name |-> stamp, file |-> file]
        copied == IF bks # <<>> /\ bks[Len(bks)].name = stamp
                    THEN [bks EXCEPT ![Len(bks)] = entry]
                    ELSE Append(bks, entry)
    IN IF Len(copied) > max_backups
            THEN SubSeq(copied, Len(copied) - max_backups + 1, Len(copied))
            ELSE copied

\* utils.create_backup: nothing for an absent file and nothing when the
\* copy fails (the exception is caught and printed).
BackedUp(bks, file, stamp, copy) ==
    IF file.state # "absent" /\ copy = "ok"
        THEN CreateBackup(bks, file, stamp)
        ELSE bks

\* The backups after utils.save_json_file(file, data).
SavedBackups(bks, file, stamp, io) ==
    BackedUp(bks, file, stamp,
             IF io \in {"copy_fails", "copy_and_write_fail"} THEN "copy_fails" ELSE "ok")

\* The file after utils.save_json_file(file, data).
SavedFile(file, data, io) ==
    CASE io \in {"ok", "copy_fails"} -> File(data)
      [] io = "open_fails" -> file
      [] OTHER -> Partial

\* utils.save_json_file(history_file, data, create_backup_file=True)
SaveJsonFile(data, stamp, io) ==
    /\ backups' = SavedBackups(backups, disk, stamp, io)
    /\ disk' = SavedFile(disk, data, io)

\* The number of add_message and clear_history calls, taken together, that
\* are followed when the history is cleared.
MaxStoreOps == 2

\* The calls of add_message and clear_history made so far.
StoreOps == Len(appended) + Len(clears)

\* A clear that saves the emptied log before it takes the snapshot.
Cleared_save_first(bks, file, stamp1, copy, stamp2, io) ==
    LET saved == SavedFile(file, <<>>, io)
    IN [snapshot |-> SavedBackups(bks, file, stamp1, io),
        messages |-> <<>>,
        backups |-> BackedUp(SavedBackups(bks, file, stamp1, io), saved, stamp2, copy),
        disk |-> saved]

\* clear_history as a function of the backups and the history file: the
\* backups after create_backup (snapshot), the log after clear(), the
\* backups and the file after _save_history, which backs the file up once
\* more before writing it.
Cleared(bks, file, stamp1, copy, stamp2, io) ==
    LET snapshot == BackedUp(bks, file, stamp1, copy)
    IN [snapshot |-> snapshot,
        messages |-> <<>>,
        backups |-> SavedBackups(snapshot, file, stamp2, io),
        disk |-> SavedFile(file, <<>>, io)]

\* GrokChatAgent.clear_history.  clears records what the call found, what
\* its steps did and how many messages had been appended before it.
ClearHistory(adv1, copy, adv2, io) ==
    LET c == Cleared(backups, disk, second + adv1, copy, second + adv1 + adv2, io)
    IN /\ second' = second + adv1 + adv2
       /\ messages' = c.messages
       /\ backups' = c.backups
       /\ disk' = c.disk
       /\ clears' = Append(clears,
                        [log0 |-> messages, disk0 |-> disk, backups0 |-> backups,
                         copy |-> copy, io |-> io, snapshot |-> c.snapshot,
                         at |-> Len(appended)])
       /\ UNCHANGED <<max_history_size, loaded, now, appended>>

\* An add_message that saves the log before it enforces the cap.
AddMessage_saves_before_cap(role, content, adv, io) ==
    LET message == Message(role, content, now + 1)
    IN /\ now' = now + 1
       /\ second' = second + adv
       /\ appended' = Append(appended, message)
       /\ messages' = Truncate(Append(messages, message), max_history_size)
       /\ SaveJsonFile(Append(messages, message), second + adv, io)
       /\ UNCHANGED <<max_history_size, loaded, clears>>

\* GrokChatAgent.add_message: build the message, append it, enforce the
\* cap, save the log.
AddMessage(role, content, adv, io) ==
    LET message == Message(role, content, now + 1)
        kept == Truncate(Append(messages, message), max_history_size)
    IN /\ now' = now + 1
       /\ second' = second + adv
       /\ appended' = Append(appended, message)
       /\ messages' = kept
       /\ SaveJsonFile(kept, second + adv, io)
       /\ UNCHANGED <<max_history_size, loaded, clears>>

\* The store after GrokChatAgent.__init__: the configured cap, the log as
\* _load_history returns it (an absent history.json gives the empty log).
AgentStarted(cap, log) ==
    /\ max_history_size = cap
    /\ messages = log
    /\ loaded = log
    /\ disk = IF log = <<>> THEN Absent ELSE File(log)
    /\ backups = <<>>
    /\ now = Len(log)
    /\ second = 0
    /\ appended = <<>>
    /\ clears = <<>>

\* The configuration after GrokChatAgent.__init__: self.config, and
\* config.yaml holding it (it was loaded from the file, or created and saved).
AgentConfigured(cfg) ==
    /\ config = cfg
    /\ config_file = File(cfg)

\* The default configuration but for the history cap.
ConfigWithCap(cap) == [DefaultConfig EXCEPT !.max_history_size = cap]

\* No response is being decoded.
DecoderIdle ==
    /\ assistant_message = <<>>
    /\ yielded = <<>>
    /\ lines = <<>>
    /\ ended = "none"

\* A caller appends a message.
AddMessageCall ==
    /\ pc = "idle"
    /\ Len(appended) < MaxAppends
    /\ \E m \in { [role |-> "user", content |-> <<"h", "i">>],
                   [role |-> "assistant", content |-> <<"y", "o">>] },
          adv \in Advances, io \in SaveOutcomes :
            AddMessage(m.role, m.content, adv, io)
    /\ UNCHANGED <<pc, transportVars, decoderVars, configVars, turnVars, callVars>>

(***************************************************************************)
(* Transport / retry engine: GrokChatAgent._make_api_request               *)
(***************************************************************************)

\* A loop that allows one attempt more.
max_retries_one_more == 3 + 1

max_retries == 3

base_delay == 1

\* One outcome of requests.post: a response with one of the status codes
\* the server is let to answer with, or one of the requests exceptions a
\* POST is let to raise: Timeout, and a RequestException that is no Timeout.
Outcomes ==
    [kind : {"response"},
     code : {200, 204, 304, 400, 401, 403, 404, 429, 500, 503},
     error : {"none"}]
        \cup [kind : {"exception"}, code : {0}, error : {"Timeout", "ConnectionError"}]

\* An exception object: its class, its message, and the attempt (1-based) whose
\* POST or raise_for_status created it; 0 when _make_api_request builds it.
Exc(cls, msg, origin) == [cls |-> cls, msg |-> msg, origin |-> origin]

NoExc == Exc("none", "none", 0)

\* What one loop iteration does after the POST: "return" the response,
\* "raise" exc, or "continue" with the next iteration; sleep is the delay
\* slept before that (0: time.sleep is not called).
Step(act, sleep, exc) == [act |-> act, sleep |-> sleep, exc |-> exc]

\* A backoff that does not grow.
Delay_constant(att) == 1

Delay(att) == base_delay * (2 ^ att)

\* A handler that raises a new exception in place of the caught one.
OnRequestException_wrapped(att, exc) ==
    IF att = 3 - 1
        THEN Step("raise", 0, Exc("Exception", "network", 0))
        ELSE Step("continue", Delay(att), NoExc)

\* except RequestException as e (a RequestException that is no Timeout)
OnRequestException(att, exc) ==
    IF att = max_retries - 1
        THEN Step("raise", 0, exc)
        ELSE Step("continue", Delay(att), NoExc)

\* A handler that re-raises the Timeout like any RequestException.
OnTimeout_reraised(att) ==
    IF att = 3 - 1
        THEN Step("raise", 0, Exc("Timeout", "network", att + 1))
        ELSE Step("continue", Delay(att), NoExc)

\* except Timeout as e
OnTimeout(att) ==
    IF att = max_retries - 1
        THEN Step("raise", 0, Exc("Exception", "Request timed out", 0))
        ELSE Step("continue", Delay(att), NoExc)

\* requests.Response.raise_for_status: HTTPError for 4xx and 5xx, else nothing.
RaisesForStatus(code) == 400 <= code /\ code < 600

\* A chain that takes 401 and 403 for retryable statuses.
OnStatus_auth_retried(att, code) ==
    IF code = 200 THEN Step("return", 0, NoExc)
    ELSE IF code \in {401, 403, 429} THEN Step("continue", Delay(att), NoExc)
    ELSE IF code >= 500 THEN Step("continue", Delay(att), NoExc)
    ELSE IF RaisesForStatus(code)
        THEN OnRequestException(att, Exc("HTTPError", "status", att + 1))
        ELSE Step("continue", 0, NoExc)

\* The if/elif chain on response.status_code.  The HTTPError of
\* raise_for_status is raised inside the try block, and HTTPError is a
\* RequestException: the handler of the same try catches it.
OnStatus(att, code) ==
    IF code = 200 THEN Step("return", 0, NoExc)
    ELSE IF code = 401 THEN Step("raise", 0, Exc("ValueError", "Invalid API key", 0))
    ELSE IF code = 403 THEN Step("raise", 0, Exc("ValueError", "API access forbidden", 0))
    ELSE IF code = 429 THEN Step("continue", Delay(att), NoExc)
    ELSE IF code >= 500 THEN Step("continue", Delay(att), NoExc)
    ELSE IF RaisesForStatus(code)
        THEN OnRequestException(att, Exc("HTTPError", "status", att + 1))
        ELSE Step("continue", 0, NoExc)

\* The body of the for loop for one outcome of the POST.
Iteration(att, o) ==
    IF o.kind = "response" THEN OnStatus(att, o.code)
    ELSE IF o.error = "Timeout" THEN OnTimeout(att)
    ELSE OnRequestException(att, Exc(o.error, "network", att + 1))

\* raise Exception(f"API request failed after {max_retries} attempts")
Exhausted == Exc("Exception", "API request failed after attempts", 0)

NoResult == [kind |-> "none", code |-> 0, from |-> 0, exc |-> NoExc]

\* The state at the first line of _make_api_request.
EnterRequest ==
    /\ attempt = 0
    /\ calls = <<>>
    /\ sleeps = <<>>
    /\ result = NoResult

\* One iteration of "for attempt in range(max_retries)": the POST, the
\* handling of its outcome, and, when the range is used up, the raise that
\* follows the loop.
Attempt(o) ==
    /\ pc = "request"
    /\ attempt < max_retries
    /\ LET s == Iteration(attempt, o) IN
        /\ UNCHANGED <<storeVars, decoderVars, configVars, turnVars, callVars>>
        /\ calls' = Append(calls, o)
        /\ sleeps' = IF s.sleep > 0
                        THEN Append(sleeps, [after |-> attempt + 1, delay |-> s.sleep])
                        ELSE sleeps
        /\ CASE s.act = "return" ->
                    /\ pc' = "returned"
                    /\ attempt' = attempt
                    /\ result' = [kind |-> "response", code |-> o.code,
                                  from |-> attempt + 1, exc |-> NoExc]
             [] s.act = "raise" ->
                    /\ pc' = "raised"
                    /\ attempt' = attempt
                    /\ result' = [kind |-> "exception", code |-> 0,
                                  from |-> attempt + 1, exc |-> s.exc]
             [] OTHER ->
                    /\ attempt' = attempt + 1
                    /\ IF attempt + 1 < max_retries
                        THEN /\ pc' = "request"
                             /\ result' = result
                        ELSE /\ pc' = "raised"
                             /\ result' = [kind |-> "exception", code |-> 0,
                                           from |-> 0, exc |-> Exhausted]

\* A request of a freshly created agent.
InitTransport ==
    /\ pc = "request"
    /\ EnterRequest
    /\ AgentStarted(default_max_history_size, <<>>)
    /\ AgentConfigured(DefaultConfig)
    /\ DecoderIdle
    /\ TurnIdle(NoCall)

NextTransport == \E o \in Outcomes : Attempt(o)

SpecTransport == InitTransport /\ [][NextTransport]_vars

\* The user clears the history (/clear).
ClearHistoryCall ==
    /\ pc = "idle"
    /\ StoreOps < MaxStoreOps
    /\ \E adv1 \in Advances, copy \in {"ok", "copy_fails"}, adv2 \in Advances,
          io \in SaveOutcomes :
            ClearHistory(adv1, copy, adv2, io)
    /\ UNCHANGED <<pc, transportVars, decoderVars, configVars, turnVars, callVars>>

\* The store of a started agent, and its callers appending messages.
InitStore ==
    /\ pc = "idle"
    /\ EnterRequest
    /\ \E cap \in HistorySizes, log \in {StoredLog(n) : n \in 0..MaxLoaded} :
            AgentStarted(cap, log) /\ AgentConfigured(ConfigWithCap(cap))
    /\ DecoderIdle
    /\ TurnIdle(NoCall)

NextStore == AddMessageCall

SpecStore == InitStore /\ [][NextStore]_vars

(***************************************************************************)
(* Streaming decoder: GrokChatAgent._parse_streaming_response              *)
(***************************************************************************)

\* The number of lines of one response the decoder specification follows.
MaxLines == 3

\* No text: the content of a line that carries none.
NoContent == <<>>

\* One line of the response body.  kind says what the line holds:
\*   "blank"     an empty or whitespace-only line
\*   "noprefix"  a line that does not start with "data: "
\*   "done"      data: [DONE]
\*   "badjson"   data: followed by text that is no JSON
\*   "nochoices" data: an object whose choices are missing or empty
\*   "nulldelta" data: an event whose choices[0].delta is null
\*   "event"     data: an event with choices[0].delta an object
\* content is the string delta.content ("" when the key is missing) and
\* finish is choices[0].finish_reason.
Line(kind, content, finish) == [kind |-> kind, content |-> content, finish |-> finish]

Event(text, finish) == Line("event", text, finish)

StreamLines ==
    { Line("blank", NoContent, "none"),
      Line("noprefix", NoContent, "none"),
      Line("done", NoContent, "none"),
      Line("badjson", NoContent, "none"),
      Line("nochoices", NoContent, "none"),
      Line("nulldelta", NoContent, "stop"),
      Event(<<"H", "e", "l">>, "none"),
      Event(<<"l", "o">>, "none"),
      Event(<<" ">>, "none"),
      Event(<<"!">>, "stop"),
      Event(<<>>, "stop") }

\* An accumulator that keeps only the last increment.
Accumulate_overwrites(acc, content) == content

\* assistant_message += content
Accumulate(acc, content) == acc \o content

\* A test that forgets strip().
HasText_unstripped(text) == text # <<>>

\* if assistant_message.strip():
HasText(text) == Strip(text) # <<>>

\* A loop body that tests finish_reason before it looks at the content.
Decode_stop_first(l) ==
    IF l.kind \in {"blank", "noprefix", "badjson", "nochoices", "nulldelta"} THEN "skip"
    ELSE IF l.kind = "done" THEN "break"
    ELSE IF l.finish = "stop" \/ l.content = <<>> THEN "finish"
    ELSE "yield"

\* A loop body that takes a line it cannot use for the end of the stream.
Decode_stops_on_bad_line(l) ==
    IF l.kind \in {"nochoices", "nulldelta"} THEN "skip"
    ELSE IF l.kind \in {"done", "blank", "noprefix", "badjson"} THEN "break"
    ELSE IF l.content = <<>> THEN "finish"
    ELSE "yield"

\* What the loop body does with one line, up to the yield:
\*   "skip"    go on with the next line (continue, or nothing to do)
\*   "break"   leave the loop
\*   "yield"   accumulate the content and yield it
\*   "finish"  no content to yield: go to the finish_reason test
\* A null delta raises AttributeError at delta.get: "except Exception" goes
\* on with the next line, and the finish_reason test is not reached.
Decode(l) ==
    IF l.kind = "blank" THEN "skip"
    ELSE IF l.kind = "noprefix" THEN "skip"
    ELSE IF l.kind = "done" THEN "break"
    ELSE IF l.kind = "badjson" THEN "skip"
    ELSE IF l.kind = "nochoices" THEN "skip"
    ELSE IF l.kind = "nulldelta" THEN "skip"
    ELSE IF l.content = <<>> THEN "finish"
    ELSE "yield"

\* A decoder that drops what it accumulated when reading the stream fails.
Finish_drops_on_error(reason) ==
    /\ pc' = "parsed"
    /\ ended' = reason
    /\ UNCHANGED <<assistant_message, yielded>>
    /\ IF HasText(assistant_message) /\ reason # "error"
        THEN \E adv \in Advances, io \in SaveOutcomes :
                AddMessage("assistant", assistant_message, adv, io)
        ELSE UNCHANGED storeVars

\* The code after the loop: add the assistant's message if content was
\* received.
Finish(reason) ==
    /\ pc' = "parsed"
    /\ ended' = reason
    /\ UNCHANGED <<assistant_message, yielded>>
    /\ IF HasText(assistant_message)
        THEN \E adv \in Advances, io \in SaveOutcomes :
                AddMessage("assistant", assistant_message, adv, io)
        ELSE UNCHANGED storeVars

\* if finish_reason == "stop": break
FinishReasonTest(l) ==
    IF l.finish = "stop"
        THEN Finish("stop")
        ELSE /\ pc' = "streaming"
             /\ UNCHANGED <<assistant_message, yielded, ended, storeVars>>

\* iter_lines delivers a line and the loop body handles it, up to the
\* yield or to the end of the generator.
ReadLine(l) ==
    /\ pc = "streaming"
    /\ Len(lines) < MaxLines
    /\ lines' = Append(lines, l)
    /\ UNCHANGED <<transportVars, configVars, turnVars, callVars>>
    /\ CASE Decode(l) = "break" -> Finish("done")
         [] Decode(l) = "finish" -> FinishReasonTest(l)
         [] Decode(l) = "yield" ->
                /\ assistant_message' = Accumulate(assistant_message, l.content)
                /\ yielded' = Append(yielded, l.content)
                /\ pc' = "yielded"
                /\ UNCHANGED <<ended, storeVars>>
         [] OTHER ->
                /\ pc' = "streaming"
                /\ UNCHANGED <<assistant_message, yielded, ended, storeVars>>

\* The consumer asks for the next increment: the generator goes on after
\* the yield, with the finish_reason test of the same event.
Resume ==
    /\ pc = "yielded"
    /\ UNCHANGED <<transportVars, lines, configVars, turnVars, callVars>>
    /\ FinishReasonTest(lines[Len(lines)])

\* A generator that adds what it accumulated when it is closed.
Abandon_saves_partial ==
    /\ pc \in {"yielded", "streaming"}
    /\ pc' = "abandoned"
    /\ UNCHANGED <<transportVars, decoderVars, configVars, turnVars, callVars>>
    /\ IF HasText(assistant_message)
        THEN \E adv \in Advances, io \in SaveOutcomes :
                AddMessage("assistant", assistant_message, adv, io)
        ELSE UNCHANGED storeVars

\* The consumer stops consuming (an interrupt, Ctrl-C): at the yield the
\* generator is closed with GeneratorExit, and while the generator waits
\* for a line KeyboardInterrupt is raised in it; neither is an Exception,
\* so no handler catches it and the code after the loop never runs.
Abandon ==
    /\ pc \in {"yielded", "streaming"}
    /\ pc' = "abandoned"
    /\ UNCHANGED <<transportVars, storeVars, decoderVars, configVars, turnVars, callVars>>

\* iter_lines has no more lines.
StreamEnds ==
    /\ pc = "streaming"
    /\ UNCHANGED <<transportVars, lines, configVars, turnVars, callVars>>
    /\ Finish("eof")

\* iter_lines raises: the outer "except Exception" logs it.
StreamFails ==
    /\ pc = "streaming"
    /\ UNCHANGED <<transportVars, lines, configVars, turnVars, callVars>>
    /\ Finish("error")

\* _make_api_request has returned the response of its first POST.
RequestSucceeded ==
    /\ attempt = 0
    /\ calls = <<[kind |-> "response", code |-> 200, error |-> "none"]>>
    /\ sleeps = <<>>
    /\ result = [kind |-> "response", code |-> 200, from |-> 1, exc |-> NoExc]

\* The logs the decoder is started on: the empty one and the longest one.
DecoderLogs == {StoredLog(0), StoredLog(MaxLoaded)}

\* The decoder is handed a response, for every cap.
InitDecoder ==
    /\ pc = "streaming"
    /\ RequestSucceeded
    /\ \E cap \in HistorySizes, log \in DecoderLogs :
            AgentStarted(cap, log) /\ AgentConfigured(ConfigWithCap(cap))
    /\ DecoderIdle
    /\ TurnIdle(NoCall)

NextDecoder ==
    \/ \E l \in StreamLines : ReadLine(l)
    \/ Resume
    \/ Abandon
    \/ StreamEnds
    \/ StreamFails

SpecDecoder == InitDecoder /\ [][NextDecoder]_vars

(***************************************************************************)
(* Searching the store: GrokChatAgent.search_history                       *)
(***************************************************************************)

\* The longest log search_history is applied to.
MaxSearched == 3

\* The length a preview is cut to.
preview_length == 100

\* needle in haystack, for two strings.
Contains(haystack, needle) ==
    \E k \in 0..(Len(haystack) - Len(needle)) :
        SubSeq(haystack, k + 1, k + Len(needle)) = needle

\* content[:100] + "..." if len(content) > 100 else content
Preview(content) ==
    IF Len(content) > preview_length
        THEN SubSeq(content, 1, preview_length) \o <<"...">>
        ELSE content

\* The loop of search_history from the i-th message (1-based) on: the
\* message is added if it matches, and the limit is tested after that, match
\* or not.
RECURSIVE SearchFrom(_, _, _, _, _)
SearchFrom(msgs, term_lower, limit, i, results) ==
    IF i > Len(msgs) THEN results
    ELSE LET msg == msgs[i]
             found == IF Contains(Lower(msg.content), term_lower)
                        THEN Append(results,
                                [index |-> i - 1, message |-> msg,
                                 preview |-> Preview(msg.content)])
                        ELSE results
         IN IF Len(found) >= limit
                THEN found
                ELSE SearchFrom(msgs, term_lower, limit, i + 1, found)

\* search_history(term, limit) over the log msgs.
SearchHistory(msgs, term, limit) == SearchFrom(msgs, Lower(term), limit, 1, <<>>)

\* A text of n characters, the first of them "H".
TextOfLength(n) == [i \in 1..n |-> IF i = 1 THEN "H" ELSE "x"]

\* The logs searched: every sequence of at most MaxSearched messages whose
\* contents are short ones, one of exactly preview_length characters and
\* one of one character more.
SearchLogs ==
    UNION { { [i \in 1..n |->
                Message(IF i % 2 = 1 THEN "user" ELSE "assistant", c[i], i)] :
              c \in [1..n -> { <<"H", "i">>, <<"y", "o">>,
                               TextOfLength(preview_length),
                               TextOfLength(preview_length + 1) }] } :
            n \in 0..MaxSearched }

(***************************************************************************)
(* File inclusion: GrokChatAgent._process_file_inclusions and the helpers  *)
(* of utils.py it calls                                                    *)
(***************************************************************************)

\* get_search_paths: the directories searched, in order (the last one is
\* base_dir / 'uploads').
search_paths ==
    <<".", "src", "lib", "scripts", "data", "documents", "files", "config",
      "configs", "uploads">>

\* A size limit of 2 * 1000 * 1000 bytes.
max_size_decimal == 2 * 1000 * 1000

\* max_size = 2 * 1024 * 1024
max_size == 2 * 1024 * 1024

\* Some of SUPPORTED_EXTENSIONS (config.py), among them every suffix the
\* header of an included file depends on.
SUPPORTED_EXTENSIONS ==
    { <<".", "p", "y">>, <<".", "r">>, <<".", "m", "d">>, <<".", "t", "x", "t">>,
      <<".", "h", "t", "m", "l">>, <<".", "x", "m", "l">>, <<".", "c", "s", "s">>,
      <<".", "s", "c", "s", "s">>, <<".", "s", "a", "s", "s">>, <<".", "s", "q", "l">> }

\* known_files of is_supported_file.
known_files ==
    { <<"m", "a", "k", "e", "f", "i", "l", "e">>,
      <<"d", "o", "c", "k", "e", "r", "f", "i", "l", "e">>,
      <<"r", "e", "a", "d", "m", "e">>,
      <<"l", "i", "c", "e", "n", "s", "e">>,
      <<"c", "h", "a", "n", "g", "e", "l", "o", "g">> }

\* pathlib's suffix of a file name: from the last dot on, unless that dot is
\* the first or the last character.
Suffix(name) ==
    LET dot == LastIndex(name, ".", Len(name))
    IN IF 1 < dot /\ dot < Len(name) THEN SubSeq(name, dot, Len(name)) ELSE NoText

\* utils.is_supported_file
IsSupportedFile(name) ==
    \/ Lower(Suffix(name)) \in SUPPORTED_EXTENSIONS
    \/ Lower(name) \in known_files

\* What one path search_path / filename is:
\*   "absent"  nothing is there
\*   "dir"     a directory
\*   "denied"  the path cannot be examined: stat() fails with an OSError
\*             that Path.exists() does not swallow (EACCES on the directory,
\*             ENAMETOOLONG)
\*   "file"    a regular file of size bytes; readable says whether open()
\*             and read() work; content is what read() returns
Entry(kind, size, readable, content) ==
    [kind |-> kind, size |-> size, readable |-> readable, content |-> content]

AbsentEntry == Entry("absent", 0, FALSE, NoText)

\* A file system: a set of [dir, name, entry], at most one per dir and name.
Stat(fs, dir, name) ==
    IF \E f \in fs : f.dir = dir /\ f.name = name
        THEN (CHOOSE f \in fs : f.dir = dir /\ f.name = name).entry
        ELSE AbsentEntry

NotFoundMarker(filename) == <<"[ERROR: File ">> \o filename \o <<" not found]">>

TooLargeMarker(filename) == <<"[ERROR: File ">> \o filename \o <<" too large (max 2MB)]">>

UnsupportedMarker(filename) == <<"[WARNING: Unsupported file type ">> \o filename \o <<"]">>

\* file_info: the header line put before the content of an included file.
FileInfo(filename) ==
    LET suffix == Suffix(filename)
        tail == filename \o <<" (">> \o suffix
    IN IF Lower(suffix) \in {<<".", "p", "y">>, <<".", "r">>}
            THEN <<"# File: ">> \o tail \o <<")", "\n">>
       ELSE IF Lower(suffix) \in {<<".", "h", "t", "m", "l">>, <<".", "x", "m", "l">>}
            THEN <<"<!-- File: ">> \o tail \o <<") -->", "\n">>
       ELSE IF Lower(suffix) \in {<<".", "c", "s", "s">>, <<".", "s", "c", "s", "s">>,
                                  <<".", "s", "a", "s", "s">>}
            THEN <<"/* File: ">> \o tail \o <<") */", "\n">>
       ELSE IF Lower(suffix) \in {<<".", "s", "q", "l">>}
            THEN <<"-- File: ">> \o tail \o <<")", "\n">>
       ELSE <<"// File: ">> \o tail \o <<")", "\n">>

\* The body of the loop of replace_file for a path that is a regular file:
\* the type test comes first, then, inside the try, the size test and the
\* read.
IncludeFile(filename, entry) ==
    IF ~IsSupportedFile(filename) THEN UnsupportedMarker(filename)
    ELSE IF entry.size > max_size THEN TooLargeMarker(filename)
    ELSE IF ~entry.readable
        THEN <<"[ERROR: Unable to read ">> \o filename \o <<": ", "e", "]">>
    ELSE FileInfo(filename) \o entry.content

\* A search that goes on to the next directory when the file it found is
\* rejected for its size.
RECURSIVE ReplaceFrom_skips_rejected(_, _, _)
ReplaceFrom_skips_rejected(fs, filename, i) ==
    IF i > Len(search_paths) THEN Returns(NotFoundMarker(filename))
    ELSE LET entry == Stat(fs, search_paths[i], filename)
         IN IF entry.kind = "denied" THEN Raises("OSError")
            ELSE IF entry.kind = "file" /\ entry.size <= max_size
                THEN Returns(IncludeFile(filename, entry))
            ELSE ReplaceFrom_skips_rejected(fs, filename, i + 1)

\* replace_file from the i-th search path on.  file_path.exists() is called
\* outside the try block.
RECURSIVE ReplaceFrom(_, _, _)
ReplaceFrom(fs, filename, i) ==
    IF i > Len(search_paths) THEN Returns(NotFoundMarker(filename))
    ELSE LET entry == Stat(fs, search_paths[i], filename)
         IN IF entry.kind = "denied" THEN Raises("OSError")
            ELSE IF entry.kind = "file" THEN Returns(IncludeFile(filename, entry))
            ELSE ReplaceFrom(fs, filename, i + 1)

\* A resolver that scans its own result once more, so that a placeholder
\* brought in by a file or by a marker is resolved too.
ProcessFileInclusions_rescans(fs, content) ==
    LET RECURSIVE Scan(_)
        Scan(text) ==
            IF text = NoText THEN Returns(NoText)
            ELSE LET close == IndexFrom(text, "}", 2)
                     matched == Head(text) = "{" /\ close > 2
                     first == IF matched
                                THEN ReplaceFrom(fs, SubSeq(text, 2, close - 1), 1)
                                ELSE Returns(<<Head(text)>>)
                     rest == Scan(IF matched THEN SubSeq(text, close + 1, Len(text))
                                             ELSE Tail(text))
                 IN IF first.kind = "raise" THEN first
                    ELSE IF rest.kind = "raise" THEN rest
                    ELSE Returns(first.value \o rest.value)
        once == Scan(content)
    IN IF once.kind = "raise" THEN once ELSE Scan(once.value)

\* re.sub(r'\{([^}]+)\}', replace_file, content): one scan from the left;
\* a match is "{", one or more characters other than "}", then "}".
RECURSIVE ProcessFileInclusions(_, _)
ProcessFileInclusions(fs, content) ==
    IF content = NoText THEN Returns(NoText)
    ELSE LET close == IndexFrom(content, "}", 2)
             matched == Head(content) = "{" /\ close > 2
             first == IF matched
                        THEN ReplaceFrom(fs, SubSeq(content, 2, close - 1), 1)
                        ELSE Returns(<<Head(content)>>)
             rest == ProcessFileInclusions(fs,
                        IF matched THEN SubSeq(content, close + 1, Len(content))
                                   ELSE Tail(content))
         IN IF first.kind = "raise" THEN first
            ELSE IF rest.kind = "raise" THEN rest
            ELSE Returns(first.value \o rest.value)

\* A text with one placeholder.
OnePlaceholder(pre, filename, post) == pre \o <<"{">> \o filename \o <<"}">> \o post

APy == <<"a", ".", "p", "y">>

BBin == <<"b", ".", "b", "i", "n">>

\* The file names, of a supported and of an unsupported type, the model's
\* texts refer to.
FileNames == {APy, BBin}

Prefixes == {NoText, <<"s", "e", "e", " ">>}

Suffixes == {<<"!">>}

\* The texts _process_file_inclusions is applied to: one placeholder, two
\* placeholders, a placeholder inside braces, empty braces, no brace.
InclusionTexts ==
    { OnePlaceholder(pre, name, post) :
        pre \in Prefixes, name \in FileNames, post \in Suffixes }
    \cup { OnePlaceholder(NoText, APy, NoText) \o OnePlaceholder(NoText, BBin, NoText),
           <<"{">> \o OnePlaceholder(NoText, APy, NoText) \o <<"}">>,
           <<"{", "}", "x">>,
           <<"H", "i">> }

\* What read() returns for every readable file of the model.
FileContent == <<"d", "a", "t", "a">>

\* What a path is found to be: nothing, a directory, a path that cannot be
\* examined, an unreadable file, and files of a few bytes (one of them with
\* a placeholder in its text), of exactly max_size bytes, of one byte more
\* and of 3 MiB.
\* Every file system in which the paths that are not absent are among
\* both names in the first two search directories.
FileSystems ==
    LET slots == { [dir |-> d, name |-> n] :
                    d \in {search_paths[1], search_paths[2]}, n \in FileNames }
        entries == { AbsentEntry,
                     Entry("dir", 0, FALSE, NoText),
                     Entry("denied", 0, FALSE, NoText),
                     Entry("file", 4, FALSE, NoText),
                     Entry("file", 4, TRUE, FileContent),
                     Entry("file", 7, TRUE, OnePlaceholder(NoText, BBin, NoText)),
                     Entry("file", max_size, TRUE, FileContent),
                     Entry("file", max_size + 1, TRUE, FileContent),
                     Entry("file", 3 * 1024 * 1024, TRUE, FileContent) }
    IN { { [dir |-> sl.dir, name |-> sl.name, entry |-> e[sl]] :
                sl \in {x \in slots : e[x] # AbsentEntry} } :
            e \in [slots -> entries] }

(***************************************************************************)
(* Payload builder: GrokChatAgent._build_api_payload                       *)
(***************************************************************************)

\* A wire message: role and content only.
WireMessage(role, content) == [role |-> role, content |-> content]

\* A loop that sends every stored message, whatever its role.
HistoryMessages_all_roles(msgs) ==
    [i \in 1..Len(msgs) |-> WireMessage(msgs[i].role, msgs[i].content)]

\* The loop over self.messages: the user and assistant messages, in log
\* order, as wire messages.
RECURSIVE HistoryMessages(_)
HistoryMessages(msgs) ==
    IF msgs = <<>> THEN <<>>
    ELSE IF Head(msgs).role \in {"user", "assistant"}
        THEN <<WireMessage(Head(msgs).role, Head(msgs).content)>>
                \o HistoryMessages(Tail(msgs))
        ELSE HistoryMessages(Tail(msgs))

\* A builder that puts the new user message before the history.
PayloadMessages_new_first(cfg, msgs, processed_message) ==
    (IF cfg.system_prompt # NoText
        THEN <<WireMessage("system", cfg.system_prompt)>>
        ELSE <<>>)
    \o <<WireMessage("user", processed_message)>>
    \o HistoryMessages(msgs)

\* The list "messages" of the payload.
PayloadMessages(cfg, msgs, processed_message) ==
    (IF cfg.system_prompt # NoText
        THEN <<WireMessage("system", cfg.system_prompt)>>
        ELSE <<>>)
    \o HistoryMessages(msgs)
    \o <<WireMessage("user", processed_message)>>

\* dict.update
Update(dict, other) ==
    [k \in DOMAIN dict \cup DOMAIN other |->
        IF k \in DOMAIN other THEN other[k] ELSE dict[k]]

\* dataclasses.asdict: a new dict with the fields of the dataclass.
AsDict(cfg) == [k \in DOMAIN cfg |-> cfg[k]]

\* A builder that updates self.config itself.
ApplyOverrides_in_place(cfg, override_config) ==
    [stored |-> Update(cfg, override_config),
     local |-> Update(cfg, override_config)]

\* config = asdict(self.config); config.update(override_config): the
\* update acts on the new dict.  stored is self.config afterwards, local is
\* the dict the payload is built from.
ApplyOverrides(cfg, override_config) ==
    [stored |-> cfg,
     local |-> IF DOMAIN override_config # {}
                THEN Update(AsDict(cfg), override_config)
                ELSE AsDict(cfg)]

\* _build_api_payload as a function of self.config, self.messages, the file
\* system and its arguments: the payload it returns, or the exception of
\* _process_file_inclusions that escapes it.
BuildApiPayload(cfg, msgs, fs, new_message, override_config) ==
    LET processed == ProcessFileInclusions(fs, new_message)
        local == ApplyOverrides(cfg, override_config).local
    IN IF processed.kind = "raise" THEN processed
       ELSE Returns([model |-> local.model,
                     messages |-> PayloadMessages(cfg, msgs, processed.value),
                     temperature |-> local.temperature,
                     max_tokens |-> local.max_tokens,
                     stream |-> local.stream])

(***************************************************************************)
(* Exporting: export._export_json, and json.load of the file it writes     *)
(***************************************************************************)

\* The number of messages in the longest log exported or counted.
MaxExported == 2

\* A character that UTF-8 cannot encode (a lone surrogate).
LoneSurrogate == "U+D800"

\* An encoder that writes the characters of a string as they are.
JsonString_unescaped(s) == <<"\"">> \o s \o <<"\"">>

\* json.dump of a str with ensure_ascii=False: the quote, the backslash and
\* the newline are escaped, every other character is written as it is.
JsonString(s) ==
    LET RECURSIVE escaped(_)
        escaped(t) ==
            IF t = <<>> THEN <<>>
            ELSE (CASE Head(t) = "\"" -> <<"\\", "\"">>
                    [] Head(t) = "\\" -> <<"\\", "\\">>
                    [] Head(t) = "\n" -> <<"\\", "n">>
                    [] OTHER -> <<Head(t)>>) \o escaped(Tail(t))
    IN <<"\"">> \o escaped(s) \o <<"\"">>

\* json.dump of a dict whose keys are the literals keys[i] and whose values
\* are already encoded as values[i], and of a list of encoded items.  The
\* whitespace that indent=2 puts between the tokens is left out: json.load
\* skips it.
JsonObject(keys, values) ==
    LET RECURSIVE members(_)
        members(i) ==
            IF i > Len(keys) THEN <<>>
            ELSE (IF i > 1 THEN <<",">> ELSE <<>>)
                    \o JsonString(<<keys[i]>>) \o <<":">> \o values[i] \o members(i + 1)
    IN <<"{">> \o members(1) \o <<"}">>

JsonArray(items) ==
    LET RECURSIVE elements(_)
        elements(i) ==
            IF i > Len(items) THEN <<>>
            ELSE (IF i > 1 THEN <<",">> ELSE <<>>) \o items[i] \o elements(i + 1)
    IN <<"[">> \o elements(1) \o <<"]">>

\* _export_json: the text of conversation_<timestamp>.json.  A role is one
\* literal; the numbers of the statistics are left out.  Writing a character
\* that UTF-8 cannot encode raises.
ExportJson(agent_id, model_name, msgs, cfg, exported_at) ==
    IF \E i \in 1..Len(msgs) : \E j \in 1..Len(msgs[i].content) :
            msgs[i].content[j] = LoneSurrogate
        THEN Raises("UnicodeEncodeError")
        ELSE Returns(JsonObject(
                <<"agent_id", "model", "exported_at", "config", "messages", "statistics">>,
                << JsonString(agent_id),
                   JsonString(model_name),
                   JsonString(exported_at),
                   JsonObject(<<"model", "system_prompt">>,
                              <<JsonString(<<cfg.model>>), JsonString(cfg.system_prompt)>>),
                   JsonArray([i \in 1..Len(msgs) |->
                        JsonObject(<<"role", "content", "timestamp", "metadata">>,
                                   << JsonString(<<msgs[i].role>>),
                                      JsonString(msgs[i].content),
                                      JsonString(msgs[i].timestamp),
                                      JsonObject(<<>>, <<>>) >>)]),
                   JsonObject(<<>>, <<>>) >>))

\* What a parser returns: the value read and the position after it, or
\* that the text is no JSON.
Parsed(value, next) == [ok |-> TRUE, value |-> value, next |-> next]

NoJson == [ok |-> FALSE]

\* json.load, by recursive descent from position i of doc.  A value is a
\* str (t = "str", v the characters), a list (t = "arr", v the values) or a
\* dict (t = "obj", v a function of the keys); any other token is a literal.
RECURSIVE ParseString(_, _, _), ParseValue(_, _), ParseArray(_, _, _), ParseObject(_, _, _)
ParseString(doc, i, acc) ==
    IF i > Len(doc) THEN NoJson
    ELSE IF doc[i] = "\"" THEN Parsed([t |-> "str", v |-> acc], i + 1)
    ELSE IF doc[i] = "\n" THEN NoJson
    ELSE IF doc[i] = "\\"
        THEN IF i + 1 > Len(doc) THEN NoJson
             ELSE CASE doc[i + 1] = "\"" -> ParseString(doc, i + 2, Append(acc, "\""))
                    [] doc[i + 1] = "\\" -> ParseString(doc, i + 2, Append(acc, "\\"))
                    [] doc[i + 1] = "n" -> ParseString(doc, i + 2, Append(acc, "\n"))
                    [] OTHER -> NoJson
        ELSE ParseString(doc, i + 1, Append(acc, doc[i]))

ParseValue(doc, i) ==
    IF i > Len(doc) THEN NoJson
    ELSE CASE doc[i] = "\"" -> ParseString(doc, i + 1, <<>>)
           [] doc[i] = "[" -> ParseArray(doc, i + 1, <<>>)
           [] doc[i] = "{" -> ParseObject(doc, i + 1, <<>>)
           [] doc[i] \in {"]", "}", ",", ":"} -> NoJson
           [] OTHER -> Parsed([t |-> "lit", v |-> doc[i]], i + 1)

\* acc holds the items read so far; i follows "[" or ",".
ParseArray(doc, i, acc) ==
    IF i > Len(doc) THEN NoJson
    ELSE IF doc[i] = "]" /\ acc = <<>> THEN Parsed([t |-> "arr", v |-> acc], i + 1)
    ELSE LET item == ParseValue(doc, i)
         IN IF ~item.ok \/ item.next > Len(doc) THEN NoJson
            ELSE CASE doc[item.next] = "," ->
                        ParseArray(doc, item.next + 1, Append(acc, item.value))
                   [] doc[item.next] = "]" ->
                        Parsed([t |-> "arr", v |-> Append(acc, item.value)], item.next + 1)
                   [] OTHER -> NoJson

\* acc holds the members read so far as pairs <<key, value>>; i follows "{"
\* or ",".  The last value of a repeated key wins.
ParseObject(doc, i, acc) ==
    LET dict(pairs) ==
            [t |-> "obj",
             v |-> [k \in {pairs[n][1] : n \in 1..Len(pairs)} |->
                        pairs[CHOOSE n \in 1..Len(pairs) :
                                /\ pairs[n][1] = k
                                /\ \A m \in (n + 1)..Len(pairs) : pairs[m][1] # k][2]]]
    IN IF i > Len(doc) THEN NoJson
       ELSE IF doc[i] = "}" /\ acc = <<>> THEN Parsed(dict(acc), i + 1)
       ELSE IF doc[i] # "\"" THEN NoJson
       ELSE LET key == ParseString(doc, i + 1, <<>>)
            IN IF ~key.ok \/ key.next > Len(doc) \/ doc[key.next] # ":" THEN NoJson
               ELSE LET member == ParseValue(doc, key.next + 1)
                        pairs == Append(acc, <<key.value.v, member.value>>)
                    IN IF ~member.ok \/ member.next > Len(doc) THEN NoJson
                       ELSE CASE doc[member.next] = "," ->
                                    ParseObject(doc, member.next + 1, pairs)
                              [] doc[member.next] = "}" ->
                                    Parsed(dict(pairs), member.next + 1)
                              [] OTHER -> NoJson

\* json.load(f) of a file whose text is doc.
JsonLoad(doc) ==
    LET r == ParseValue(doc, 1)
    IN IF r.ok /\ r.next = Len(doc) + 1
        THEN Returns(r.value)
        ELSE Raises("JSONDecodeError")

\* The logs exported and counted: at most MaxExported messages of every
\* role, with contents of several lengths that hold the characters JSON
\* gives a meaning to; the timestamp of a message is the isoformat() text of
\* its instant.
SampleLogs ==
    LET samples ==
            { [role |-> "user", content |-> <<"H", "i">>],
              [role |-> "assistant", content |-> NoText],
              [role |-> "user", content |-> <<"\"">>],
              [role |-> "assistant", content |-> <<"\\">>],
              [role |-> "system", content |-> <<"\\", "\"">>],
              [role |-> "user", content |-> <<"\n">>],
              [role |-> "assistant", content |-> <<"a", "\"", ",", "\"", "b", "\"", ":">>],
              [role |-> "tool", content |-> <<"}", "]", ",">>],
              [role |-> "user", content |-> <<"\\", "n">>],
              [role |-> "assistant", content |-> <<"e", "'">>],
              [role |-> "user", content |-> <<"x", LoneSurrogate>>] }
    IN UNION { { [i \in 1..n |->
                    Message(m[i].role, m[i].content,
                            <<"2026-11-02T09:00:0", ToString(i)>>)] :
                 m \in [1..n -> samples] } :
               n \in 0..MaxExported }

(***************************************************************************)
(* Statistics: GrokChatAgent.get_statistics                                *)
(***************************************************************************)

\* A sum that counts the contents of the user and assistant messages only.
TotalCharacters_chat_only(msgs) ==
    LET RECURSIVE total(_)
        total(i) ==
            IF i > Len(msgs) THEN 0
            ELSE (IF msgs[i].role \in {"user", "assistant"} THEN Len(msgs[i].content) ELSE 0)
                    + total(i + 1)
    IN total(1)

\* sum(len(m["content"]) for m in self.messages)
TotalCharacters(msgs) ==
    LET RECURSIVE total(_)
        total(i) == IF i > Len(msgs) THEN 0 ELSE Len(msgs[i].content) + total(i + 1)
    IN total(1)

\* get_statistics.  The two instants and the duration of a non-empty log
\* are kept as the timestamps they are computed from, under the name of the
\* conversion; Python's None is the string "None".
GetStatistics(msgs) ==
    IF msgs = <<>>
        THEN [total_messages |-> 0,
              user_messages |-> 0,
              assistant_messages |-> 0,
              total_characters |-> 0,
              average_message_length |-> 0,
              first_message |-> "None",
              last_message |-> "None",
              conversation_duration |-> "None"]
        ELSE [total_messages |-> Len(msgs),
              user_messages |-> Len(SelectSeq(msgs, LAMBDA m : m.role = "user")),
              assistant_messages |-> Len(SelectSeq(msgs, LAMBDA m : m.role = "assistant")),
              total_characters |-> TotalCharacters(msgs),
              average_message_length |-> TotalCharacters(msgs) \div Len(msgs),
              first_message |-> <<"strftime", msgs[1].timestamp>>,
              last_message |-> <<"strftime", msgs[Len(msgs)].timestamp>>,
              conversation_duration |->
                    <<"str", msgs[Len(msgs)].timestamp, msgs[1].timestamp>>]

(***************************************************************************)
(* The functions studied on their own: AgentConfig.validate,               *)
(* _process_file_inclusions, search_history, _export_json, get_statistics  *)
(***************************************************************************)

\* The function fn is called and returns, or raises, outcome.
Called(fn, outcome) ==
    /\ pc = "call"
    /\ args.fn = fn
    /\ pc' = "done"
    /\ ret' = outcome
    /\ UNCHANGED <<args, transportVars, storeVars, decoderVars, configVars, turnVars>>

\* The arguments of the functions studied on their own.  validate() is
\* applied to configurations in which every field it reads takes values
\* below, at, between and above the ends of its range.
CallInputs ==
    { [fn |-> "validate",
       config |-> AgentConfig("grok-4-latest", t, mt, mh, TRUE, default_system_prompt, tp)] :
        t \in {-1, Tenths(0), 7, Tenths(2), 21},
        mt \in {None, Some(-1), Some(0), Some(1), Some(model_max_tokens)},
        mh \in {-1, 0, 1, default_max_history_size},
        tp \in {-1, Tenths(0), 5, Tenths(1), 11} }
    \cup { [fn |-> "_process_file_inclusions", content |-> content, fs |-> fs] :
            content \in InclusionTexts, fs \in FileSystems }
    \cup { [fn |-> "search_history", term |-> term, limit |-> limit] :
            term \in {<<"h", "I">>, <<"Y">>, <<"z">>, NoText},
            limit \in {0, 1, 2, 10} }
    \cup { [fn |-> "_export_json"], [fn |-> "get_statistics"] }

\* A function is about to be called on an agent; search_history,
\* _export_json and get_statistics read its log.
InitCall ==
    /\ pc = "call"
    /\ EnterRequest
    /\ AgentConfigured(DefaultConfig)
    /\ DecoderIdle
    /\ \E a \in CallInputs :
            /\ TurnIdle(a)
            /\ \E log \in CASE a.fn = "search_history" -> SearchLogs
                             [] a.fn \in {"_export_json", "get_statistics"} -> SampleLogs
                             [] OTHER -> {<<>>} :
                    AgentStarted(default_max_history_size, log)

\* export_conversation("json") returns the path of the file written: the
\* outcome kept is the text of that file.
NextCall ==
    \/ Called("validate", Returns(Validate(args.config)))
    \/ Called("_process_file_inclusions", ProcessFileInclusions(args.fs, args.content))
    \/ Called("search_history", Returns(SearchHistory(messages, args.term, args.limit)))
    \/ Called("_export_json",
              ExportJson(<<"a", "1">>, <<"Grok 4">>, messages, config,
                         <<"2026-11-02T10:00:00">>))
    \/ Called("get_statistics", Returns(GetStatistics(messages)))

SpecCall == InitCall /\ [][NextCall]_vars

\* A log that holds messages of other roles among those of the user and
\* the assistant (history.json is read as it is), every content distinct.
MixedLog ==
    << Message("user", <<"q", "1">>, 1),
       Message("system", <<"s">>, 2),
       Message("assistant", <<"a", "1">>, 3),
       Message("tool", <<"t">>, 4),
       Message("user", <<"q", "2">>, 5) >>

\* The configurations a payload is built from.
PayloadConfigs ==
    { [DefaultConfig EXCEPT !.system_prompt = sp, !.temperature = t, !.stream = st] :
        sp \in {NoText, default_system_prompt}, t \in {Tenths(0), 7}, st \in BOOLEAN }

\* A caller builds a payload.  Nothing but the local dict is updated with
\* the overrides; config.yaml is not written.  after_override records that
\* the call before this one was given overrides.
BuildPayloadCall(new_message, fs, override_config) ==
    LET r == BuildApiPayload(config, messages, fs, new_message, override_config)
    IN /\ pc = "idle"
       /\ args' = [fn |-> "_build_api_payload", new_message |-> new_message,
                   fs |-> fs, override_config |-> override_config,
                   after_override |-> /\ args.fn = "_build_api_payload"
                                      /\ DOMAIN args.override_config # {}]
       /\ ret' = r
       /\ payload' = IF r.kind = "return" THEN r.value ELSE Nothing
       /\ config' = IF r.kind = "return"
                        THEN ApplyOverrides(config, override_config).stored
                        ELSE config
       /\ UNCHANGED <<pc, transportVars, storeVars, decoderVars, config_file,
                      chunks, turn>>

\* An agent whose log is MixedLog or a prefix of it.
InitPayload ==
    /\ pc = "idle"
    /\ EnterRequest
    /\ \E cfg \in PayloadConfigs, n \in 0..Len(MixedLog) :
            /\ AgentStarted(cfg.max_history_size, SubSeq(MixedLog, 1, n))
            /\ AgentConfigured(cfg)
    /\ DecoderIdle
    /\ TurnIdle(NoCall)

\* The callers pass plain text and text with a placeholder; no file, a.py
\* in src, and a directory data that cannot be searched; no override and
\* overrides of one and of two fields.
NextPayload ==
    \E new_message \in { <<"H", "i">>, OnePlaceholder(<<"s", "e", "e", " ">>, APy, <<"!">>) },
       fs \in { {},
                {[dir |-> "src", name |-> APy, entry |-> Entry("file", 4, TRUE, FileContent)]},
                {[dir |-> "data", name |-> APy, entry |-> Entry("denied", 0, FALSE, NoText)]} },
       override_config \in { None,
                             [stream |-> FALSE],
                             [temperature |-> 25, max_tokens |-> Some(5)],
                             [system_prompt |-> <<"o", "v">>] } :
        BuildPayloadCall(new_message, fs, override_config)

SpecPayload == InitPayload /\ [][NextPayload]_vars

(***************************************************************************)
(* A turn: GrokChatAgent.call_api, from the call to the end of the         *)
(* generator                                                               *)
(***************************************************************************)

\* What a turn is given: the text (plain, or with a placeholder), the
\* file system it is resolved in (empty, or with a directory that cannot
\* be searched) and the overrides.
TurnInputs ==
    { [new_message |-> text, fs |-> {}, override_config |-> None] :
        text \in { <<"H", "i">>, OnePlaceholder(<<"s", "e", "e", " ">>, APy, <<"!">>) } }
    \cup { [new_message |-> <<"H", "i">>, fs |-> {},
            override_config |-> [stream |-> FALSE]],
           [new_message |-> OnePlaceholder(<<"s", "e", "e", " ">>, APy, <<"!">>),
            fs |-> {[dir |-> "data", name |-> APy,
                     entry |-> Entry("denied", 0, FALSE, NoText)]},
            override_config |-> None] }

\* The lines of a streamed response a turn is followed through.
TurnLines ==
    { Line("badjson", NoContent, "none"),
      Line("done", NoContent, "none"),
      Event(<<"H", "e", "l">>, "none"),
      Event(<<" ">>, "none"),
      Event(<<"!">>, "stop") }

\* The body of a response to a request with stream false: kind is
\*   "badjson"    response.json() raises
\*   "nochoices"  an object whose choices are missing or empty
\*   "message"    an object with choices[0].message.content = content
\*                ("" when a key is missing)
Bodies ==
    { [kind |-> "badjson", content |-> NoContent],
      [kind |-> "nochoices", content |-> NoContent] }
    \cup { [kind |-> "message", content |-> c] :
            c \in {NoContent, <<" ">>, <<"H", "e", "l", "l", "o">>} }

\* f"API call failed: {e}"
ErrorChunk(exc) == <<"API call failed: ", exc.msg>>

\* A handler that logs the error and lets the exception go on.
OnException_reraised(exc) == [act |-> "raise", chunk |-> NoText]

\* except Exception as e: yield error_msg
OnException(exc) == [act |-> "yield", chunk |-> ErrorChunk(exc)]

\* _parse_non_streaming_response: the text it returns, and whether it has
\* added that text to the log (if content:, without strip()).
ParseNonStreaming(body) ==
    IF body.kind = "badjson"
        THEN [text |-> <<"Error parsing response: ", "e">>, added |-> FALSE]
    ELSE IF body.kind = "message" /\ body.content # NoContent
        THEN [text |-> body.content, added |-> TRUE]
    ELSE [text |-> <<"No response content received">>, added |-> FALSE]

\* A call_api that stores the user's message as it is sent, with the
\* placeholders resolved.
CallApi_appends_resolved(in, adv, io) ==
    LET processed == ProcessFileInclusions(in.fs, in.new_message)
        built == BuildApiPayload(config, messages', in.fs, in.new_message,
                                 in.override_config)
    IN /\ pc = "idle"
       /\ turn = Nothing
       /\ turn' = [kind |-> "turn", new_message |-> in.new_message, fs |-> in.fs,
                   override_config |-> in.override_config,
                   log0 |-> messages, disk0 |-> disk]
       /\ AddMessage("user",
                     IF processed.kind = "return" THEN processed.value ELSE in.new_message,
                     adv, io)
       /\ IF built.kind = "return"
            THEN /\ payload' = built.value
                 /\ pc' = "request"
                 /\ result' = result
            ELSE /\ payload' = payload
                 /\ pc' = "raised"
                 /\ result' = [kind |-> "exception", code |-> 0, from |-> 0,
                               exc |-> Exc(built.value, "builder", 0)]
       /\ UNCHANGED <<attempt, calls, sleeps, decoderVars, configVars, chunks, callVars>>

\* The consumer asks call_api for its first chunk: the generator appends
\* and saves the user's message, then builds the payload.  An exception of
\* the builder goes to the handler of call_api like one of the request.
CallApi(in, adv, io) ==
    LET built == BuildApiPayload(config, messages', in.fs, in.new_message,
                                 in.override_config)
    IN /\ pc = "idle"
       /\ turn = Nothing
       /\ turn' = [kind |-> "turn", new_message |-> in.new_message, fs |-> in.fs,
                   override_config |-> in.override_config,
                   log0 |-> messages, disk0 |-> disk]
       /\ AddMessage("user", in.new_message, adv, io)
       /\ IF built.kind = "return"
            THEN /\ payload' = built.value
                 /\ pc' = "request"
                 /\ result' = result
            ELSE /\ payload' = payload
                 /\ pc' = "raised"
                 /\ result' = [kind |-> "exception", code |-> 0, from |-> 0,
                               exc |-> Exc(built.value, "builder", 0)]
       /\ UNCHANGED <<attempt, calls, sleeps, decoderVars, configVars, chunks, callVars>>

\* The handler of call_api: the exception raised inside the try block is
\* yielded as one chunk of text.
Fail ==
    /\ pc = "raised"
    /\ turn # Nothing
    /\ LET h == OnException(result.exc)
       IN IF h.act = "yield"
            THEN /\ chunks' = Append(chunks, h.chunk)
                 /\ pc' = "failed"
            ELSE /\ chunks' = chunks
                 /\ pc' = "escaped"
    /\ UNCHANGED <<transportVars, storeVars, decoderVars, configVars, payload,
                   turn, callVars>>

\* if payload.get("stream", True): the decoder is started on the response.
StartStreaming ==
    /\ pc = "returned"
    /\ turn # Nothing
    /\ payload.stream
    /\ pc' = "streaming"
    /\ UNCHANGED <<transportVars, storeVars, decoderVars, configVars, turnVars,
                   callVars>>

\* else: the response is parsed whole and its text yielded as one chunk.
ParseWhole(body) ==
    /\ pc = "returned"
    /\ turn # Nothing
    /\ ~payload.stream
    /\ pc' = "parsed"
    /\ LET r == ParseNonStreaming(body)
       IN /\ chunks' = Append(chunks, r.text)
          /\ IF r.added
                THEN \E adv \in Advances, io \in SaveOutcomes :
                        AddMessage("assistant", r.text, adv, io)
                ELSE UNCHANGED storeVars
    /\ UNCHANGED <<transportVars, decoderVars, configVars, payload, turn, callVars>>

\* A started agent before a turn.
InitTurn ==
    /\ pc = "idle"
    /\ EnterRequest
    /\ \E log \in DecoderLogs : AgentStarted(default_max_history_size, log)
    /\ AgentConfigured(DefaultConfig)
    /\ DecoderIdle
    /\ TurnIdle(NoCall)

\* The outcomes of a POST a turn is followed through: success, a status
\* that fails at once, an authorization error, a retryable status, a
\* timeout and another network error.
NextTurn ==
    \/ \E in \in TurnInputs, adv \in Advances, io \in SaveOutcomes : CallApi(in, adv, io)
    \/ \E o \in {x \in Outcomes : x.kind = "exception" \/ x.code \in {200, 400, 401, 500}} :
            Attempt(o)
    \/ Fail
    \/ StartStreaming
    \/ \E body \in Bodies : ParseWhole(body)
    \/ \E l \in TurnLines : ReadLine(l)
    \/ Resume
    \/ Abandon
    \/ StreamEnds
    \/ StreamFails

SpecTurn == InitTurn /\ [][NextTurn]_vars

\* A started agent whose backups directory holds n files of earlier
\* sessions, n being none, one fewer than max_backups, or max_backups (the
\* most that create_backup leaves): every one has a content of its own and a
\* name older than any this session gives.
InitClear ==
    /\ pc = "idle"
    /\ EnterRequest
    /\ \E log \in DecoderLogs, n \in {0, max_backups - 1, max_backups} :
            /\ max_history_size = default_max_history_size
            /\ messages = log
            /\ loaded = log
            /\ disk = IF log = <<>> THEN Absent ELSE File(log)
            /\ backups = [i \in 1..n |->
                            [name |-> i - n - 1,
                             file |-> File(<<Message("user", <<"o", "l", "d">>, i - n - 1)>>)]]
            /\ now = Len(log)
            /\ second = 0
            /\ appended = <<>>
            /\ clears = <<>>
    /\ AgentConfigured(DefaultConfig)
    /\ DecoderIdle
    /\ TurnIdle(NoCall)

\* Between turns, callers append messages and clear the history.
NextClear ==
    \/ StoreOps < MaxStoreOps /\ AddMessageCall
    \/ ClearHistoryCall

SpecClear == InitClear /\ [][NextClear]_vars

(***************************************************************************)
(* The configuration from program start to the first turn: main,           *)
(* GrokChatAgent._load_config and save_config                              *)
(***************************************************************************)

\* The AgentConfig records config.yaml may hold at program start:
\* written by an earlier run or by hand, with values inside and outside
\* the ranges of validate().
YamlFiles ==
    {Absent, Partial}
    \cup { File([DefaultConfig EXCEPT !.temperature = t, !.max_history_size = mh,
                                      !.top_p = tp]) :
            t \in {Tenths(0), 7, 25},
            mh \in {0, MaxHistorySize, default_max_history_size},
            tp \in {Tenths(1), 15} }

\* utils.save_yaml_file: no backup is made; open() may raise, or yaml.dump
\* may raise after open() has truncated the file.
SaveYamlFile(file, data, io) ==
    CASE io = "ok" -> File(data)
      [] io = "open_fails" -> file
      [] OTHER -> Partial

\* _load_config: the configuration it returns.  validate() is not called.
LoadConfig(file) ==
    IF file.state = "ok" THEN file.data ELSE DefaultConfig

\* What the user types at the Temperature prompt (float(), in tenths) and
\* gives to --temperature (type=float): nothing, or any float.
TemperatureInputs == {None, Some(7), Some(25), Some(-1)}

\* create_agent_config_interactive: the dataclass defaults, with the
\* temperature and the token limit the user typed.  The system prompt and
\* the stream flag are left at their defaults.
CreateAgentConfigInteractive(temp_input, tokens_input) ==
    [AgentConfig("grok-4-latest", Tenths(0), Some(model_max_tokens),
                 default_max_history_size, TRUE, default_system_prompt, Tenths(1))
        EXCEPT !.temperature = IF temp_input # None THEN temp_input[1] ELSE @,
               !.max_tokens = IF tokens_input # None THEN tokens_input ELSE @]

\* overrides of main: temperature if --temperature is given, stream False
\* if --no-stream is given.
CommandLineOverrides(temperature, no_stream) ==
    [k \in (IF temperature # None THEN {"temperature"} ELSE {})
            \cup (IF no_stream THEN {"stream"} ELSE {}) |->
        IF k = "temperature" THEN temperature[1] ELSE FALSE]

\* GrokChatAgent.__init__ up to the configuration: _load_config, which
\* saves the default configuration when it creates it.
StartAgent(io) ==
    /\ pc = "start"
    /\ pc' = "started"
    /\ config' = LoadConfig(config_file)
    /\ max_history_size' = config'.max_history_size
    /\ IF config_file.state = "ok"
        THEN UNCHANGED <<config_file, args>>
        ELSE /\ config_file' = SaveYamlFile(config_file, DefaultConfig, io)
             /\ args' = [fn |-> "save_config", config |-> DefaultConfig]
    /\ UNCHANGED <<messages, loaded, disk, backups, now, second, appended, clears,
                   transportVars, decoderVars, turnVars, ret>>

\* main with --config: the configuration typed in replaces the agent's and
\* is saved; the program ends.
Configure(temp_input, tokens_input, io) ==
    /\ pc = "started"
    /\ pc' = "exit"
    /\ config' = CreateAgentConfigInteractive(temp_input, tokens_input)
    /\ max_history_size' = config'.max_history_size
    /\ config_file' = SaveYamlFile(config_file, config', io)
    /\ args' = [fn |-> "save_config", config |-> config']
    /\ UNCHANGED <<messages, loaded, disk, backups, now, second, appended, clears,
                   transportVars, decoderVars, turnVars, ret>>

\* main without --config: the command-line overrides, if any, are merged
\* into the configuration, which is saved; then interactive_chat begins.
StartChat(temperature, no_stream, io) ==
    LET overrides == CommandLineOverrides(temperature, no_stream)
    IN /\ pc = "started"
       /\ pc' = "idle"
       /\ IF DOMAIN overrides # {}
            THEN /\ config' = Update(AsDict(config), overrides)
                 /\ config_file' = SaveYamlFile(config_file, config', io)
                 /\ args' = [fn |-> "save_config", config |-> config']
            ELSE UNCHANGED <<config, config_file, args>>
       /\ UNCHANGED <<storeVars, transportVars, decoderVars, turnVars, ret>>

\* The program is started in an agent directory without history.json.
InitConfig ==
    /\ pc = "start"
    /\ EnterRequest
    /\ AgentStarted(default_max_history_size, <<>>)
    /\ config = Nothing
    /\ config_file \in YamlFiles
    /\ DecoderIdle
    /\ TurnIdle(NoCall)

\* At the Max tokens prompt (int()) the user types nothing, or any int.
NextConfig ==
    \/ \E io \in SaveOutcomes : StartAgent(io)
    \/ \E t \in TemperatureInputs, n \in {None, Some(0), Some(100)},
          io \in SaveOutcomes :
            Configure(t, n, io)
    \/ \E t \in TemperatureInputs, ns \in BOOLEAN, io \in SaveOutcomes :
            StartChat(t, ns, io)
    \/ \E in \in TurnInputs, adv \in Advances, io \in SaveOutcomes : CallApi(in, adv, io)

SpecConfig == InitConfig /\ [][NextConfig]_vars

(***************************************************************************)
(* The interactive session: main.interactive_chat                          *)
(***************************************************************************)

\* str.split(): the words of s, separated by runs of whitespace.
RECURSIVE Words(_)
Words(s) ==
    LET t == LStrip(s)
        RECURSIVE WordEnd(_)
        WordEnd(i) == IF i > Len(t) \/ IsSpace(t[i]) THEN i ELSE WordEnd(i + 1)
    IN IF t = <<>> THEN <<>>
       ELSE <<SubSeq(t, 1, WordEnd(1) - 1)>> \o Words(SubSeq(t, WordEnd(1), Len(t)))

\* int(text) succeeds: an optional sign and decimal digits.
IsInt(text) ==
    LET digits == IF text # <<>> /\ text[1] \in {"-", "+"} THEN Tail(text) ELSE text
    IN /\ digits # <<>>
       /\ \A i \in 1..Len(digits) :
            digits[i] \in {"0", "1", "2", "3", "4", "5", "6", "7", "8", "9"}

\* What the body of the loop does with one line typed at the prompt, up to
\* the call of an agent method that changes the log or sends a request:
\*   "continue"  go back to the prompt (after printing says)
\*   "break"     leave the loop
\*   "confirm"   /clear: ask for the confirmation
\*   "raise"     an exception says is raised inside the try block
\*   "turn"      a regular message: call_api(user_input)
\* user_input is the line after strip().  For a bare "/" command_parts is
\* empty and command_parts[0] raises IndexError.
HandleInput(user_input) ==
    LET command_parts == Words(Tail(user_input))
        command == Lower(command_parts[1])
        Do(act, says) == [act |-> act, says |-> says]
    IN IF user_input = <<>> THEN Do("continue", "")
       ELSE IF Head(user_input) # "/" THEN Do("turn", "Assistant: ")
       ELSE IF command_parts = <<>> THEN Do("raise", "IndexError")
       ELSE IF command = <<"h", "e", "l", "p">> THEN Do("continue", "Available Commands:")
       ELSE IF command = <<"h", "i", "s", "t", "o", "r", "y">>
            THEN IF Len(command_parts) > 1 /\ ~IsInt(command_parts[2])
                    THEN Do("continue", "Invalid number")
                    ELSE Do("continue", "Last messages")
       ELSE IF command = <<"s", "e", "a", "r", "c", "h">>
            THEN IF Len(command_parts) < 2
                    THEN Do("continue", "Usage: /search <term>")
                    ELSE Do("continue", "results")
       ELSE IF command = <<"s", "t", "a", "t", "s">>
            THEN Do("continue", "Conversation Statistics:")
       ELSE IF command = <<"c", "o", "n", "f", "i", "g">>
            THEN Do("continue", "Current Configuration:")
       ELSE IF command = <<"e", "x", "p", "o", "r", "t">>
            THEN IF Len(command_parts) < 2
                    THEN Do("continue", "Usage: /export <json|txt|md|html>")
                 ELSE IF Lower(command_parts[2]) \notin
                            { <<"j", "s", "o", "n">>, <<"t", "x", "t">>, <<"m", "d">>,
                              <<"h", "t", "m", "l">> }
                    THEN Do("continue", "Invalid format. Use: json, txt, md, or html")
                 ELSE Do("continue", "Exported to")
       ELSE IF command = <<"c", "l", "e", "a", "r">> THEN Do("confirm", "Clear conversation history? (y/N): ")
       ELSE IF command = <<"f", "i", "l", "e", "s">> THEN Do("continue", "files")
       ELSE IF command = <<"i", "n", "f", "o">> THEN Do("continue", "info")
       ELSE IF command \in { <<"q", "u", "i", "t">>, <<"e", "x", "i", "t">>, <<"q">> }
            THEN Do("break", "Goodbye!")
       ELSE Do("continue", "Unknown command")

\* The lines typed at the prompt: nothing, blanks, a bare "/", the commands
\* that leave the loop (one in capitals, one between blanks), commands that
\* only print, /clear, an unknown command, and a regular message with a
\* placeholder.
SessionInputs ==
    { <<>>,
      <<" ">>,
      <<"/">>,
      <<"/", "q", "u", "i", "t">>,
      <<" ", "/", "e", "x", "i", "t", " ">>,
      <<"/", "Q">>,
      <<"/", "h", "e", "l", "p">>,
      <<"/", "h", "i", "s", "t", "o", "r", "y", " ", "x">>,
      <<"/", "h", "i", "s", "t", "o", "r", "y", " ", "1">>,
      <<"/", "s", "e", "a", "r", "c", "h">>,
      <<"/", "e", "x", "p", "o", "r", "t", " ", "p", "d", "f">>,
      <<"/", "c", "l", "e", "a", "r">>,
      <<"/", "q", "u", "i", "t", "s">>,
      <<" ", "{", "a", ".", "p", "y", "}">> }

\* The loop reads a line and handles it, up to the end of the loop body
\* ("handled": continue), to the end of the loop, to an exception handler of
\* the loop, or, for a regular message, to the first request of the turn.
\* confirm is the answer to the question /clear asks; args keeps the line and
\* ret what became of it.
TypeLine(line, confirm, adv, io) ==
    LET user_input == Strip(line)
        h == HandleInput(user_input)
    IN /\ pc = "idle"
       /\ CASE h.act = "turn" ->
                    /\ CallApi([new_message |-> user_input, fs |-> {},
                                override_config |-> None], adv, io)
            [] h.act = "confirm" /\ Lower(Strip(confirm)) \in {<<"y">>, <<"y", "e", "s">>} ->
                    /\ Len(clears) < MaxStoreOps - 1
                    /\ ClearHistory(adv, "ok", 0, io)
                    /\ pc' = "handled"
                    /\ args' = [fn |-> "interactive_chat", user_input |-> user_input]
                    /\ ret' = Returns("Conversation history cleared")
                    /\ UNCHANGED <<transportVars, decoderVars, configVars, turnVars>>
            [] OTHER ->
                    /\ pc' = CASE h.act = "break" -> "exit"
                               [] h.act = "raise" -> "caught"
                               [] OTHER -> "handled"
                    /\ args' = [fn |-> "interactive_chat", user_input |-> user_input]
                    /\ ret' = IF h.act = "raise" THEN Raises(h.says) ELSE Returns(h.says)
                    /\ UNCHANGED <<transportVars, storeVars, decoderVars, configVars,
                                   turnVars>>

\* input() finds the end of standard input: EOFError, raised inside the try
\* block.
EndOfInput ==
    /\ pc = "idle"
    /\ pc' = "caught"
    /\ ret' = Raises("EOFError")
    /\ UNCHANGED <<args, transportVars, storeVars, decoderVars, configVars, turnVars>>

\* A loop without its "except KeyboardInterrupt": Ctrl-C leaves
\* interactive_chat from wherever it arrives.
KeyboardInterrupt_leaves_the_loop ==
    /\ pc \in {"idle", "handled", "request", "interrupted", "caught", "abandoned"}
    /\ pc' = "unwound"
    /\ UNCHANGED <<transportVars, storeVars, decoderVars, configVars, turnVars, callVars>>

\* Ctrl-C.  The default SIGINT handler raises KeyboardInterrupt in the main
\* thread wherever it is.  Inside the try block (waiting in input(), or in
\* the request of a turn; Abandon is the same during a streamed response)
\* the loop's "except KeyboardInterrupt" catches it.  While one of the
\* loop's except handlers is printing, no try block is active: the
\* exception leaves interactive_chat and main ends the program.
KeyboardInterrupt ==
    /\ pc \in {"idle", "handled", "request", "interrupted", "caught", "abandoned"}
    /\ pc' = IF pc \in {"idle", "handled", "request"} THEN "interrupted" ELSE "unwound"
    /\ UNCHANGED <<transportVars, storeVars, decoderVars, configVars, turnVars, callVars>>

\* The end of one pass of the loop body: a command has been handled, the
\* generator of the turn is exhausted, or an except handler of the loop has
\* printed its message.  The next pass begins at the prompt, and the locals
\* of the pass are gone; turn keeps the record of the turn the session has
\* been followed through.
Reprompt ==
    /\ pc \in {"handled", "parsed", "failed", "interrupted", "caught", "abandoned"}
    /\ pc' = "idle"
    /\ attempt' = 0
    /\ calls' = <<>>
    /\ sleeps' = <<>>
    /\ result' = NoResult
    /\ assistant_message' = <<>>
    /\ yielded' = <<>>
    /\ lines' = <<>>
    /\ ended' = "none"
    /\ payload' = Nothing
    /\ chunks' = <<>>
    /\ args' = NoCall
    /\ ret' = Nothing
    /\ UNCHANGED <<storeVars, configVars, turn>>

\* interactive_chat begins on a started agent: the default configuration,
\* or one with a history cap of one message and stream off; the log of the
\* earlier sessions is empty, ends with the user's message of a turn that
\* failed, or is the longest one.
InitSession ==
    /\ pc = "idle"
    /\ EnterRequest
    /\ \E cfg \in {DefaultConfig, [ConfigWithCap(1) EXCEPT !.stream = FALSE]},
          log \in {StoredLog(n) : n \in {0, 1, MaxLoaded}} :
            AgentStarted(cfg.max_history_size, log) /\ AgentConfigured(cfg)
    /\ DecoderIdle
    /\ TurnIdle(NoCall)

\* A session is followed through its prompts, with the server answering
\* 200 or 401, a streamed response of two kinds of event and a whole
\* response with and without content.
NextSession ==
    \/ \E line \in SessionInputs, confirm \in {<<"Y">>, <<>>}, io \in {"ok", "open_fails"} :
            TypeLine(line, confirm, 1, io)
    \/ EndOfInput
    \/ KeyboardInterrupt
    \/ Reprompt
    \/ \E o \in {x \in Outcomes : x.code \in {200, 401}} : Attempt(o)
    \/ Fail
    \/ StartStreaming
    \/ \E body \in {b \in Bodies : b.kind = "nochoices" \/ Len(b.content) > 1} :
            ParseWhole(body)
    \/ \E l \in {Event(<<"H", "e", "l">>, "none"), Event(<<"!">>, "stop")} : ReadLine(l)
    \/ Resume
    \/ Abandon
    \/ StreamEnds
    \/ StreamFails

SpecSession == InitSession /\ [][NextSession]_vars

(***************************************************************************)
(* Claims about the retry engine (checked under SpecTransport)             *)
(***************************************************************************)

IsStatus(o, codes) == o.kind = "response" /\ o.code \in codes

Is2xx(code) == 200 <= code /\ code < 300

Is5xx(code) == 500 <= code /\ code < 600

IsRetryableStatus(o) == o.kind = "response" /\ (o.code = 429 \/ Is5xx(o.code))

IsTimeout(o) == o.kind = "exception" /\ o.error = "Timeout"

IsOtherNetworkError(o) == o.kind = "exception" /\ o.error # "Timeout"

\* time.sleep was called after the k-th POST.
SleptAfter(k) == \E i \in 1..Len(sleeps) : sleeps[i].after = k

\* The delays slept, in order.
Delays == [i \in 1..Len(sleeps) |-> sleeps[i].delay]

\* The k-th POST ended the call: it is the last one and the call is over.
EndedAt(k) == k = Len(calls) /\ pc \in {"returned", "raised"}

\* The call goes on after the k-th POST: either the next POST was issued or
\* it is the next thing the loop does.
RetriedAfter(k) == Len(calls) > k \/ (pc = "request" /\ attempt = k)

AuthorizationError(e) ==
    e.cls = "ValueError" /\ e.msg \in {"Invalid API key", "API access forbidden"}

TimeoutFailure(e) == e.cls = "Exception" /\ e.msg = "Request timed out"

ExhaustionFailure(e) == e.cls = "Exception" /\ e.msg = "API request failed after attempts"

\* C1: whatever the outcomes of the attempts are, one call of
\* _make_api_request issues at most 3 HTTP POSTs.
C1_AtMostThreePosts == Len(calls) <= 3

C1_Witness == Len(calls) = 3 /\ pc = "raised"

\* C2: an attempt that receives 401 or 403 ends the call on that attempt with
\* an authorization error: no further POST and no sleep after it; a 401 on the
\* first attempt gives exactly one POST and no sleep at all.
C2_AuthFailsAtOnce ==
    /\ \A k \in 1..Len(calls) :
            IsStatus(calls[k], {401, 403}) =>
                /\ EndedAt(k)
                /\ pc = "raised"
                /\ result.kind = "exception"
                /\ AuthorizationError(result.exc)
                /\ ~SleptAfter(k)
    /\ (Len(calls) >= 1 /\ IsStatus(calls[1], {401})) =>
            (Len(calls) = 1 /\ sleeps = <<>>)

C2_Witness ==
    /\ Len(calls) = 1
    /\ IsStatus(calls[1], {401})
    /\ pc = "raised"

C2_WitnessLate ==
    /\ Len(calls) = 3
    /\ IsStatus(calls[3], {403})
    /\ pc = "raised"

\* C3: when every attempt receives 429 or a 5xx, exactly 3 POSTs are made,
\* the sleeps are 1, 2, 4 in that order (2^k after attempt k, counted from 0)
\* and the call ends by raising the exhaustion failure, never by returning.
C3_RetryableExhausts ==
    (\A k \in 1..Len(calls) : IsRetryableStatus(calls[k])) =>
        /\ sleeps = [k \in 1..Len(calls) |-> [after |-> k, delay |-> 2 ^ (k - 1)]]
        /\ Len(calls) < 3 => pc = "request"
        /\ Len(calls) = 3 =>
                /\ pc = "raised"
                /\ Delays = <<1, 2, 4>>
                /\ result.kind = "exception"
                /\ ExhaustionFailure(result.exc)

C3_Witness ==
    /\ Len(calls) = 3
    /\ IsStatus(calls[1], {429})
    /\ IsStatus(calls[2], {500})
    /\ IsStatus(calls[3], {429})
    /\ Delays = <<1, 2, 4>>
    /\ pc = "raised"

\* C4: an attempt that receives any 2xx status returns that attempt's
\* response as a success, and no further POST is issued.
C4_Any2xxReturns ==
    \A k \in 1..Len(calls) :
        (calls[k].kind = "response" /\ Is2xx(calls[k].code)) =>
            /\ EndedAt(k)
            /\ pc = "returned"
            /\ result.kind = "response"
            /\ result.from = k
            /\ result.code = calls[k].code

\* C5: an attempt that receives a status that is not 2xx, 401, 403, 429 or
\* 5xx fails the request on that attempt: no retry and no sleep follow it.
C5_OtherStatusFailsAtOnce ==
    \A k \in 1..Len(calls) :
        (/\ calls[k].kind = "response"
         /\ ~Is2xx(calls[k].code)
         /\ calls[k].code \notin {401, 403, 429}
         /\ ~Is5xx(calls[k].code)) =>
            /\ EndedAt(k)
            /\ pc = "raised"
            /\ ~SleptAfter(k)

\* C6: a timeout on attempt 1 or 2 is followed by a sleep of 1 resp. 2 and a
\* retry; a timeout on attempt 3 ends the call without a sleep, with a
\* timeout failure that no other network exception ends the call with.
C6_TimeoutRetriedThenDistinct ==
    /\ \A k \in 1..Len(calls) :
            IsTimeout(calls[k]) =>
                IF k < 3
                    THEN /\ \E i \in 1..Len(sleeps) :
                                sleeps[i] = [after |-> k, delay |-> k]
                         /\ RetriedAfter(k)
                    ELSE /\ EndedAt(k)
                         /\ pc = "raised"
                         /\ ~SleptAfter(k)
                         /\ result.kind = "exception"
                         /\ TimeoutFailure(result.exc)
    /\ (Len(calls) = 3 /\ EndedAt(3) /\ ~IsTimeout(calls[3])) =>
            ~TimeoutFailure(result.exc)

C6_Witness ==
    /\ Len(calls) = 3
    /\ \A k \in 1..3 : IsTimeout(calls[k])
    /\ Delays = <<1, 2>>
    /\ pc = "raised"

\* C7: a network exception that is no timeout on attempt 1 or 2 is followed
\* by the sleep (1 resp. 2) and a retry; on attempt 3 that same exception
\* object is what the call raises, and no sleep happens.
C7_NetworkErrorRetriedThenReraised ==
    \A k \in 1..Len(calls) :
        IsOtherNetworkError(calls[k]) =>
            IF k < 3
                THEN /\ \E i \in 1..Len(sleeps) :
                            sleeps[i] = [after |-> k, delay |-> k]
                     /\ RetriedAfter(k)
                ELSE /\ EndedAt(k)
                     /\ pc = "raised"
                     /\ ~SleptAfter(k)
                     /\ result.kind = "exception"
                     /\ result.exc = Exc(calls[k].error, "network", k)

C7_Witness ==
    /\ Len(calls) = 3
    /\ \A k \in 1..3 : IsOtherNetworkError(calls[k])
    /\ Delays = <<1, 2>>
    /\ pc = "raised"

(***************************************************************************)
(* Claims about the conversation store (checked under SpecStore)           *)
(***************************************************************************)

\* The last n elements of seq, in their order.
LastN(seq, n) == SubSeq(seq, Len(seq) - n + 1, Len(seq))

\* C10: from a log within the cap, once more messages have been appended
\* with add_message than the cap C (C > 0), the log is exactly the C most
\* recently appended messages, in the order they were appended.
C10_CapKeepsMostRecent ==
    (/\ max_history_size > 0
     /\ Len(loaded) <= max_history_size
     /\ Len(appended) > max_history_size) =>
        messages = LastN(appended, max_history_size)

C10_Witness ==
    /\ max_history_size = 2
    /\ Len(loaded) = 1
    /\ Len(appended) = 3
    /\ messages = <<appended[2], appended[3]>>
    /\ appended[2] # appended[3]

(***************************************************************************)
(* Claims about the streaming decoder (checked under SpecDecoder)          *)
(***************************************************************************)

\* The texts of parts joined, in order.
RECURSIVE Concat(_)
Concat(parts) ==
    IF parts = <<>> THEN <<>>
    ELSE Head(parts) \o Concat(Tail(parts))

\* seq cut to its last n elements when it is longer.
KeepLast(seq, n) == IF Len(seq) > n THEN LastN(seq, n) ELSE seq

\* C8: when the decoding has run to its end (DONE, stop, a read error or
\* the end of the input) and the accumulated text is non-empty after
\* trimming whitespace, exactly one message was appended to the log: an
\* assistant message whose content is the concatenation of the increments
\* yielded, in yield order.
C8_OneAssistantMessage ==
    (pc = "parsed" /\ Strip(assistant_message) # <<>>) =>
        /\ Len(appended) = 1
        /\ appended[1].role = "assistant"
        /\ appended[1].content = Concat(yielded)
        /\ max_history_size > 0 =>
                messages = KeepLast(Append(loaded, appended[1]), max_history_size)

C8_Witness ==
    /\ pc = "parsed"
    /\ ended = "done"
    /\ yielded = << <<"H", "e", "l">>, <<"l", "o">> >>
    /\ Len(appended) = 1
    /\ appended[1].content = <<"H", "e", "l", "l", "o">>
    /\ messages = Append(loaded, appended[1])

C8_WitnessError ==
    /\ pc = "parsed"
    /\ ended = "error"
    /\ Len(yielded) = 2
    /\ Len(appended) = 1

\* C9: a stream that yields no content (such as malformed JSON lines
\* followed by [DONE]) produces no increment and appends nothing; no
\* message is appended when the accumulated text is empty or only
\* whitespace.
C9_NoContentNoAppend ==
    /\ (\A i \in 1..Len(lines) : lines[i].kind \in {"badjson", "done"}) =>
            (yielded = <<>> /\ appended = <<>> /\ messages = loaded)
    /\ yielded = <<>> => (appended = <<>> /\ messages = loaded)
    /\ (pc = "parsed" /\ Strip(assistant_message) = <<>>) =>
            (appended = <<>> /\ messages = loaded)

C9_Witness ==
    /\ pc = "parsed"
    /\ Len(lines) = 3
    /\ lines[1].kind = "badjson"
    /\ lines[2].kind = "badjson"
    /\ lines[3].kind = "done"
    /\ yielded = <<>>
    /\ appended = <<>>

C9_WitnessWhitespace ==
    /\ pc = "parsed"
    /\ yielded = << <<" ">>, <<" ">> >>
    /\ appended = <<>>

(***************************************************************************)
(* Claims about the payload builder (checked under SpecPayload)            *)
(***************************************************************************)

BuiltPayload == args.fn = "_build_api_payload" /\ ret.kind = "return"

IsChatRole(m) == m.role \in {"user", "assistant"}

\* C11: the messages list of a payload is one leading system message iff a
\* system prompt is configured, then every stored log message whose role is
\* user or assistant, in log order, then the new user message as the last
\* element.
C11_PayloadMessagesOrder ==
    BuiltPayload =>
        LET wire == ret.value.messages
            lead == IF config.system_prompt # NoText THEN 1 ELSE 0
            history == SelectSeq(messages, IsChatRole)
            resolved == ProcessFileInclusions(args.fs, args.new_message).value
        IN /\ Len(wire) = lead + Len(history) + 1
           /\ lead = 1 => wire[1] = WireMessage("system", config.system_prompt)
           /\ \A i \in 1..Len(wire) : wire[i].role = "system" => (i = 1 /\ lead = 1)
           /\ \A i \in 1..Len(history) :
                wire[lead + i] = WireMessage(history[i].role, history[i].content)
           /\ wire[Len(wire)] = WireMessage("user", resolved)
           /\ (\A i \in 1..Len(args.new_message) : args.new_message[i] \notin {"{", "}"})
                => wire[Len(wire)].content = args.new_message

\* A payload built with a system prompt over the whole mixed log.
C11_Witness ==
    /\ BuiltPayload
    /\ config.system_prompt # NoText
    /\ messages = MixedLog
    /\ Len(ret.value.messages) = 5

\* A payload built without a system prompt over a log with a system message.
C11_WitnessNoPrompt ==
    /\ BuiltPayload
    /\ config.system_prompt = NoText
    /\ messages = MixedLog
    /\ Len(ret.value.messages) = 4

\* The fields of the configuration that a payload carries.
PayloadFields == {"model", "temperature", "max_tokens", "stream"}

\* C13: override fields passed to a call change only that call's payload:
\* the stored configuration and config.yaml are as they were before the
\* call, and a call without overrides (also one that follows a call with
\* overrides) builds its payload from the stored values.
C13_OverridesNotPersisted ==
    args.fn = "_build_api_payload" =>
        /\ config_file = File(config)
        /\ config \in PayloadConfigs
        /\ BuiltPayload =>
            \A k \in PayloadFields :
                ret.value[k] = IF k \in DOMAIN args.override_config
                                THEN args.override_config[k]
                                ELSE config[k]

\* A call without overrides that follows a call with overrides.
C13_Witness ==
    /\ BuiltPayload
    /\ args.after_override
    /\ DOMAIN args.override_config = {}
    /\ ret.value.temperature = config.temperature

\* A call whose payload carries an overridden temperature.
C13_WitnessOverride ==
    /\ BuiltPayload
    /\ "temperature" \in DOMAIN args.override_config
    /\ ret.value.temperature # config.temperature

(***************************************************************************)
(* Claims about the configuration record (checked under SpecCall)          *)
(***************************************************************************)

\* C14: validate() returns true exactly when temperature is in [0, 2], top_p
\* is in [0, 1], max_history_size > 0 and max_tokens is absent or > 0.
C14_ValidateExactlyInRange ==
    (pc = "done" /\ args.fn = "validate") =>
        LET cfg == args.config
        IN ret.value =
            ( /\ cfg.temperature \in 0..20
              /\ cfg.top_p \in 0..10
              /\ cfg.max_history_size > 0
              /\ (cfg.max_tokens = None \/ cfg.max_tokens[1] > 0) )

\* validate() accepted a configuration with every value at an end of its range.
C14_Witness ==
    /\ pc = "done"
    /\ args.fn = "validate"
    /\ ret.value = TRUE
    /\ args.config.temperature = 20
    /\ args.config.top_p = 0
    /\ args.config.max_history_size = 1
    /\ args.config.max_tokens = None

\* validate() rejected a configuration for its top_p alone.
C14_WitnessRejected ==
    /\ pc = "done"
    /\ args.fn = "validate"
    /\ ret.value = FALSE
    /\ args.config.temperature = 7
    /\ args.config.top_p = 11
    /\ args.config.max_history_size = 1
    /\ args.config.max_tokens = Some(1)

(***************************************************************************)
(* Claims about a turn (checked under SpecTurn)                            *)
(***************************************************************************)

InTurn == turn # Nothing

\* The request of the turn has not been answered with a success.
NotSent == InTurn /\ pc \in {"request", "raised", "failed"}

\* C12: during a turn the stored log, in memory and on disk, is not
\* modified before the HTTP request has been sent successfully; a turn whose
\* request fails leaves the log as it was before the turn.
C12_LogUntouchedBeforeSend ==
    NotSent => (messages = turn.log0 /\ disk = turn.disk0)

\* The literal texts call_api yields in place of a response.
IsFailureText(chunk) ==
    chunk # NoText /\
    chunk[1] \in {"API call failed: ", "Error parsing response: ",
                  "No response content received"}

\* C16: call_api never raises to its consumer: a terminal failure of the
\* turn (an exception of the builder or of the request, a whole response
\* that cannot be parsed) is delivered as exactly one yielded chunk of text
\* in place of the response, and that text is never appended to the log.
C16_FailureIsOneChunk ==
    /\ pc # "escaped"
    /\ (InTurn /\ pc = "failed") =>
            /\ chunks = <<ErrorChunk(result.exc)>>
            /\ yielded = <<>>
            /\ Len(appended) = 1
            /\ appended[1].role = "user"
    /\ (InTurn /\ pc = "parsed" /\ ~payload.stream) =>
            /\ Len(chunks) = 1
            /\ IsFailureText(chunks[1]) => Len(appended) = 1
    /\ \A i \in 1..Len(chunks), j \in 1..Len(appended) :
            IsFailureText(chunks[i]) => appended[j].content # chunks[i]
    /\ \A j \in 1..Len(messages) : ~IsFailureText(messages[j].content)
    /\ disk.state = "ok" => \A j \in 1..Len(disk.data) : ~IsFailureText(disk.data[j].content)

\* A turn that failed with the authorization error.
C16_Witness ==
    /\ InTurn
    /\ pc = "failed"
    /\ result.exc.msg = "Invalid API key"
    /\ chunks = <<<<"API call failed: ", "Invalid API key">>>>

\* A turn that failed after three attempts.
C16_WitnessExhausted ==
    /\ InTurn
    /\ pc = "failed"
    /\ result.exc = Exhausted
    /\ Len(calls) = 3

\* A turn that failed in the builder, before any request.
C16_WitnessBuilder ==
    /\ InTurn
    /\ pc = "failed"
    /\ calls = <<>>
    /\ result.exc.cls = "OSError"

\* A turn whose whole response could not be parsed.
C16_WitnessParse ==
    /\ InTurn
    /\ pc = "parsed"
    /\ chunks = <<<<"Error parsing response: ", "e">>>>

(***************************************************************************)
(* Claims about the configuration in use (checked under SpecConfig)        *)
(***************************************************************************)

\* C15: a configuration with a value out of range (loaded from
\* config.yaml, typed at the interactive prompt, given by --temperature) is
\* rejected before use: no payload is built from it, no log is capped with
\* it, and it is never written to config.yaml.
C15_InvalidConfigRejected ==
    /\ payload # Nothing => Validate(config)
    /\ appended # <<>> => Validate(config)
    /\ args.fn = "save_config" => Validate(args.config)

(***************************************************************************)
(* Claims about file inclusion (checked under SpecCall)                    *)
(***************************************************************************)

Included == pc = "done" /\ args.fn = "_process_file_inclusions"

\* The kind of the path search_paths[i] / name.
KindAt(i, name) == Stat(args.fs, search_paths[i], name).kind

\* The file exists in none of the search directories.
Missing(name) ==
    \A i \in 1..Len(search_paths) : KindAt(i, name) \in {"absent", "dir"}

\* The placeholder resolves to the regular file found in the i-th search
\* directory: the directories before it hold no such path.
ResolvesAt(i, name) ==
    /\ KindAt(i, name) = "file"
    /\ \A j \in 1..(i - 1) : KindAt(j, name) \in {"absent", "dir"}

\* The first part of C17 alone: a placeholder whose file is missing is
\* replaced by the not-found marker.
C17_MissingFileMarker ==
    Included =>
        \A pre \in Prefixes, name \in FileNames, post \in Suffixes :
            (args.content = OnePlaceholder(pre, name, post) /\ Missing(name))
                => ret = Returns(pre \o NotFoundMarker(name) \o post)

\* C17: a placeholder whose file exists in none of the search directories is
\* replaced by [ERROR: File <name> not found], and for every text and every
\* file-system state no exception escapes _process_file_inclusions.
C17_MissingMarkedNothingEscapes ==
    /\ C17_MissingFileMarker
    /\ Included => ret.kind = "return"

\* C18 as stated: a placeholder that resolves to a file larger than 2 MiB is
\* replaced by [ERROR: File <name> too large (max 2MB)], and a file of 2 MiB
\* or less is not rejected for its size.
C18_LargeFileRejected ==
    Included =>
        \A pre \in Prefixes, name \in FileNames, post \in Suffixes,
           i \in 1..Len(search_paths) :
            (args.content = OnePlaceholder(pre, name, post) /\ ResolvesAt(i, name)) =>
                LET size == Stat(args.fs, search_paths[i], name).size
                    marked == Returns(pre \o TooLargeMarker(name) \o post)
                IN IF size > 2 * 1024 * 1024 THEN ret = marked ELSE ret # marked

\* C18, amended: a placeholder that resolves to a file of a supported type
\* larger than 2 MiB is replaced by the too-large marker, and no file,
\* whatever its type, of 2 MiB or less is rejected for its size; a file of an
\* unsupported type gets the unsupported-type marker whatever its size.
C18_LargeSupportedFileRejected ==
    Included =>
        \A pre \in Prefixes, name \in FileNames, post \in Suffixes,
           i \in 1..Len(search_paths) :
            (args.content = OnePlaceholder(pre, name, post) /\ ResolvesAt(i, name)) =>
                LET size == Stat(args.fs, search_paths[i], name).size
                    marked == Returns(pre \o TooLargeMarker(name) \o post)
                IN /\ (name = APy /\ size > 2 * 1024 * 1024) => ret = marked
                   /\ size <= 2 * 1024 * 1024 => ret # marked
                   /\ name = BBin => ret = Returns(pre \o UnsupportedMarker(name) \o post)

\* a.py of one byte more than 2 MiB, found in the second search directory.
C18_Witness ==
    /\ Included
    /\ args.content = OnePlaceholder(<<"s", "e", "e", " ">>, APy, <<"!">>)
    /\ ResolvesAt(2, APy)
    /\ Stat(args.fs, search_paths[2], APy).size = 2 * 1024 * 1024 + 1
    /\ ret = Returns(<<"s", "e", "e", " ", "[ERROR: File ", "a", ".", "p", "y",
                       " too large (max 2MB)]", "!">>)

\* a.py of exactly 2 MiB is included.
C18_WitnessAtLimit ==
    /\ Included
    /\ args.content = OnePlaceholder(NoText, APy, <<"!">>)
    /\ ResolvesAt(1, APy)
    /\ Stat(args.fs, search_paths[1], APy).size = 2 * 1024 * 1024
    /\ ret = Returns(<<"# File: ", "a", ".", "p", "y", " (", ".", "p", "y", ")", "\n",
                       "d", "a", "t", "a", "!">>)

(***************************************************************************)
(* Claims about clearing the history (checked under SpecClear)             *)
(***************************************************************************)

\* clear_history was the last call made on the store.
JustCleared == clears # <<>> /\ clears[Len(clears)].at = Len(appended)

LastClear == clears[Len(clears)]

\* Some backup file holds this version of the history file.
HasBackupOf(bks, file) == \E i \in 1..Len(bks) : bks[i].file = file

C19_WitnessIoFails ==
    /\ JustCleared
    /\ LastClear.io = "open_fails"
    /\ LastClear.copy = "copy_fails"
    /\ disk = LastClear.disk0
    /\ disk # File(<<>>)

(***************************************************************************)
(* Claims about searching (checked under SpecCall)                         *)
(***************************************************************************)

Searched == pc = "done" /\ args.fn = "search_history"

\* The positions (1-based) of the messages that match the term.
Matching ==
    {i \in 1..Len(messages) : Contains(Lower(messages[i].content), Lower(args.term))}

\* The results are at most limit, the first matching messages in log order,
\* each with its preview.
SearchResultAsSpecified ==
    LET r == ret.value
    IN /\ Len(r) <= args.limit
       /\ \A k \in 1..Len(r) :
            /\ r[k].index + 1 \in Matching
            /\ r[k].message = messages[r[k].index + 1]
            /\ Cardinality({i \in Matching : i < r[k].index + 1}) = k - 1
            /\ r[k].preview =
                    IF Len(r[k].message.content) <= 100
                        THEN r[k].message.content
                        ELSE SubSeq(r[k].message.content, 1, 100) \o <<"...">>
       /\ \A k \in 1..(Len(r) - 1) : r[k].index < r[k + 1].index
       /\ Len(r) < args.limit => Len(r) = Cardinality(Matching)

\* C20: for every log, term and limit, search_history returns at most limit
\* results, the first matching messages in log order (a message matches iff
\* the term is a case-insensitive substring of its content), each with the
\* content as preview if it has at most 100 characters and else its first
\* 100 characters followed by "...".
C20_SearchFirstMatches ==
    Searched => SearchResultAsSpecified

\* C20 for the limits from 1 on.
C20_SearchFirstMatchesPositiveLimit ==
    (Searched /\ args.limit >= 1) => SearchResultAsSpecified

(***************************************************************************)
(* Claims about the backups of the history file (checked under SpecClear)  *)
(***************************************************************************)

\* The contents of the backup files, oldest name first.
BackupFiles(bks) == [i \in 1..Len(bks) |-> bks[i].file]

\* The backups hold files, cut to the max_backups most recent.
Rotated(bks, files) == BackupFiles(bks) = KeepLast(files, max_backups)

\* C21: after any sequence of saves and clears the number of backups never
\* exceeds max_backups, the backups retained are the most recent ones
\* (oldest deleted first), and every save over an existing history file adds
\* a backup holding the version the save replaces.  A clear_history, which
\* calls create_backup twice on the same file, may add that version once or
\* twice.
C21_BackupsRotate ==
    [][ /\ Len(backups') <= max_backups
        /\ (appended' # appended /\ disk.state # "absent") =>
                Rotated(backups', BackupFiles(backups) \o <<disk>>)
        /\ (clears' # clears /\ disk.state # "absent") =>
                \/ Rotated(backups', BackupFiles(backups) \o <<disk>>)
                \/ Rotated(backups', BackupFiles(backups) \o <<disk, disk>>)
        /\ disk.state = "absent" => backups' = backups ]_vars

\* The part of C21 that holds: never more than max_backups backups, and a
\* save or clear deletes backups only from the oldest end.
C21_AtMostMaxBackups ==
    [][ /\ Len(backups') <= max_backups
        /\ \E k \in 0..Len(backups), j \in 0..2 :
                /\ Len(backups') = Len(backups) - k + j
                /\ \A i \in 1..(Len(backups) - k - 1) : backups'[i] = backups[k + i]
        /\ (Len(backups') < max_backups) =>
                \A i \in 1..(Len(backups) - 1) : backups'[i] = backups[i] ]_vars

\* C21 for saves in distinct seconds whose copy works: every such save over
\* an existing file adds its backup and keeps the most recent ones.
C21_BackupsRotateDistinctSeconds ==
    [][ (/\ appended' # appended
         /\ disk.state # "absent"
         /\ \A i \in 1..Len(backups) : backups[i].name # second'
         /\ \E i \in 1..Len(backups') : backups'[i] = [name |-> second', file |-> disk]) =>
            Rotated(backups', BackupFiles(backups) \o <<disk>>) ]_vars

(***************************************************************************)
(* Claims about failing saves (checked under SpecClear)                    *)
(***************************************************************************)

\* The step is an add_message or a clear_history whose save did not leave
\* the log it was given in history.json.
SaveFailedStep ==
    /\ appended' # appended \/ clears' # clears
    /\ disk' # File(messages')

\* The in-memory log the step's operation produces.
LogProduced ==
    IF clears' # clears
        THEN <<>>
        ELSE Truncate(Append(messages, appended'[Len(appended')]), max_history_size)

\* C22: when persisting the log fails during add_message or clear_history,
\* no exception reaches the caller, the in-memory log is the one the
\* operation produced, and the version that was on disk before the save is
\* still there, as the history file or as a backup.
C22_SaveFailureContained ==
    [][ SaveFailedStep =>
            /\ pc' = pc
            /\ messages' = LogProduced
            /\ disk.state # "absent" => (disk' = disk \/ HasBackupOf(backups', disk)) ]_vars

\* The part of C22 that holds: the failure is contained and the in-memory
\* log is the one the operation produced.
C22_SaveFailureKeepsMemory ==
    [][ SaveFailedStep => (pc' = pc /\ messages' = LogProduced) ]_vars

(***************************************************************************)
(* Claims about what reaches the wire (checked under SpecPayload)          *)
(***************************************************************************)

\* C23: every element of the messages list of a payload has a role among
\* system, user and assistant and has the fields role and content and no
\* other; a stored message of another role is not in the list, and no
\* timestamp or metadata of a stored message is.
C23_OnlyChatRolesOnTheWire ==
    BuiltPayload =>
        LET wire == ret.value.messages
        IN /\ \A i \in 1..Len(wire) :
                /\ DOMAIN wire[i] = {"role", "content"}
                /\ wire[i].role \in {"system", "user", "assistant"}
           /\ \A j \in 1..Len(messages) :
                ~IsChatRole(messages[j]) =>
                    \A i \in 1..Len(wire) : wire[i].content # messages[j].content
           /\ Len(SelectSeq(wire, IsChatRole)) = Len(SelectSeq(messages, IsChatRole)) + 1

\* A payload built over a log that holds a system and a tool message, each
\* with a timestamp and metadata.
C23_Witness ==
    /\ BuiltPayload
    /\ \E j \in 1..Len(messages) : messages[j].role = "tool"
    /\ \E j \in 1..Len(messages) :
            messages[j].role = "system" /\ "metadata" \in DOMAIN messages[j]
    /\ \E i \in 1..Len(ret.value.messages) : ret.value.messages[i].role = "assistant"

(***************************************************************************)
(* Claims about exporting (checked under SpecCall)                         *)
(***************************************************************************)

Exported == pc = "done" /\ args.fn = "_export_json" /\ ret.kind = "return"

\* The list under the key "messages" of the document parsed from text.
MessagesParsed(text) == JsonLoad(text).value.v[<<"messages">>].v

C24_WitnessRaised ==
    /\ pc = "done"
    /\ args.fn = "_export_json"
    /\ ret = Raises("UnicodeEncodeError")

(***************************************************************************)
(* Claims about the statistics (checked under SpecCall)                    *)
(***************************************************************************)

Counted == pc = "done" /\ args.fn = "get_statistics"

\* The positions of the messages of a role.
WithRole(role) == {i \in 1..Len(messages) : messages[i].role = role}

\* C25: get_statistics on an empty log returns zero for every count and
\* None for first_message, last_message and conversation_duration; on a
\* non-empty log total_messages is the length of the log, user_messages and
\* assistant_messages are the numbers of messages of that role,
\* total_characters is the sum of the lengths of the contents and
\* average_message_length is total_characters integer-divided by the length
\* of the log.
C25_StatisticsCounts ==
    Counted =>
        LET st == ret.value
            chars == Len(Concat([i \in 1..Len(messages) |-> messages[i].content]))
        IN /\ ret.kind = "return"
           /\ st.total_messages = Len(messages)
           /\ st.user_messages = Cardinality(WithRole("user"))
           /\ st.assistant_messages = Cardinality(WithRole("assistant"))
           /\ st.total_characters = chars
           /\ messages = <<>> =>
                /\ st.average_message_length = 0
                /\ st.first_message = "None"
                /\ st.last_message = "None"
                /\ st.conversation_duration = "None"
           /\ messages # <<>> =>
                /\ st.average_message_length * Len(messages) <= chars
                /\ chars < (st.average_message_length + 1) * Len(messages)
                /\ st.first_message # "None"

\* The statistics of a log with a message that is neither the user's nor
\* the assistant's and whose mean length is not a whole number.
C25_Witness ==
    /\ Counted
    /\ Len(messages) = 2
    /\ WithRole("system") # {}
    /\ ret.value.total_characters = 3
    /\ ret.value.average_message_length = 1

\* The statistics of the empty log.
C25_WitnessEmpty ==
    /\ Counted
    /\ messages = <<>>
    /\ ret.value.total_messages = 0

(***************************************************************************)
(* Claims about where the decoder stops (checked under SpecDecoder)        *)
(***************************************************************************)

\* The line is data: [DONE], or an event whose choices[0].finish_reason is
\* "stop".
IsTerminal(l) ==
    \/ l.kind = "done"
    \/ l.kind \in {"event", "nulldelta"} /\ l.finish = "stop"

\* The contents of the events among ls that carry text, in order.
ContentsOf(ls) ==
    LET withText == SelectSeq(ls, LAMBDA l : l.kind = "event" /\ l.content # NoContent)
    IN [i \in 1..Len(withText) |-> withText[i].content]

\* C26: once the decoder has seen data: [DONE] or an event whose
\* finish_reason is "stop", it reads no further line: no line follows such
\* a line among the lines read, so nothing is yielded or accumulated from one.
C26_NothingReadAfterTerminal ==
    \A k \in 1..Len(lines) : IsTerminal(lines[k]) => k = Len(lines)

\* The part of C26 that holds: no line is read after data: [DONE] or after
\* a "stop" event whose delta is an object.
C26_NothingReadAfterDoneOrStopDelta ==
    \A k \in 1..Len(lines) :
        (IsTerminal(lines[k]) /\ lines[k].kind # "nulldelta") =>
            /\ k = Len(lines)
            /\ yielded = ContentsOf(SubSeq(lines, 1, k))

\* The last line read.
LastLine == lines[Len(lines)]

\* t ends with s.
EndsWith(t, s) == Len(t) >= Len(s) /\ SubSeq(t, Len(t) - Len(s) + 1, Len(t)) = s

\* C27: for an event that carries non-empty content and finish_reason
\* "stop", the decoder first accumulates and yields the content and only
\* then stops: when the decoder has stopped on such an event, its content is
\* the last increment yielded and the end of the text accumulated, and of
\* the assistant message appended (one is appended unless the text is blank).
C27_ContentBeforeStop ==
    (/\ pc \in {"yielded", "parsed"}
     /\ lines # <<>>
     /\ LastLine.kind = "event"
     /\ LastLine.finish = "stop"
     /\ LastLine.content # NoContent) =>
        /\ yielded # <<>>
        /\ yielded[Len(yielded)] = LastLine.content
        /\ EndsWith(assistant_message, LastLine.content)
        /\ pc = "parsed" =>
            /\ ended = "stop"
            /\ HasText(assistant_message) =>
                    /\ Len(appended) = 1
                    /\ appended[1].role = "assistant"
                    /\ EndsWith(appended[1].content, LastLine.content)

\* The decoder stopped on "!" with "stop" after "Hel": "Hel!" was appended.
C27_Witness ==
    /\ pc = "parsed"
    /\ ended = "stop"
    /\ LastLine = Event(<<"!">>, "stop")
    /\ yielded = << <<"H", "e", "l">>, <<"!">> >>
    /\ Len(appended) = 1
    /\ appended[1].content = <<"H", "e", "l", "!">>

\* A blank line, a line without the "data: " prefix, a data line with
\* malformed JSON.
IsIgnored(l) == l.kind \in {"blank", "noprefix", "badjson"}

\* C28: a blank line, a line without the "data: " prefix and a data line
\* with malformed JSON each leave the accumulator unchanged, yield nothing
\* and do not stop the decoder; every later valid content line of the stream
\* is still processed and yielded: what was yielded and accumulated is what
\* the content events among the lines read carry, whatever ignored lines lie
\* between them.
C28_IgnoredLinesSkipped ==
    /\ yielded = ContentsOf(lines)
    /\ assistant_message = Concat(ContentsOf(lines))
    /\ (lines # <<>> /\ IsIgnored(LastLine)) =>
            /\ ended \in {"none", "eof", "error"}
            /\ ended = "none" => pc \in {"streaming", "abandoned"}

\* Malformed JSON, then a blank line, then a content line that was yielded.
C28_Witness ==
    /\ Len(lines) = 3
    /\ lines[1].kind = "badjson"
    /\ lines[2].kind = "blank"
    /\ lines[3] = Event(<<"H", "e", "l">>, "none")
    /\ yielded = << <<"H", "e", "l">> >>
    /\ pc = "yielded"

\* A line without the prefix between two content lines.
C28_WitnessBetween ==
    /\ Len(lines) = 3
    /\ lines[2].kind = "noprefix"
    /\ Len(yielded) = 2

\* C29: if reading the stream fails after k increments have been yielded,
\* the decoder stops reading, no exception reaches the consumer, and, when
\* the accumulated text is not blank, exactly one assistant message holding
\* the concatenation of those k increments is appended to the log.
C29_ReadFailureKeepsText ==
    ended = "error" =>
        /\ pc = "parsed"
        /\ assistant_message = Concat(yielded)
        /\ IF HasText(assistant_message)
            THEN /\ Len(appended) = 1
                 /\ appended[1].role = "assistant"
                 /\ appended[1].content = Concat(yielded)
                 /\ max_history_size > 0 =>
                        messages = KeepLast(Append(loaded, appended[1]), max_history_size)
            ELSE appended = <<>> /\ messages = loaded

\* The stream failed after "Hel" and "lo" were yielded: "Hello" was appended.
C29_Witness ==
    /\ ended = "error"
    /\ yielded = << <<"H", "e", "l">>, <<"l", "o">> >>
    /\ Len(lines) = 2
    /\ appended # <<>>
    /\ appended[1].content = <<"H", "e", "l", "l", "o">>
    /\ messages # <<>>
    /\ messages[Len(messages)] = appended[1]

\* The stream failed before anything was yielded.
C29_WitnessNothing ==
    /\ ended = "error"
    /\ yielded = <<>>
    /\ appended = <<>>

\* C30: the assistant message of a streamed turn is appended only after the
\* decoder has stopped reading: while increments are being yielded the log
\* does not hold it, and if the consumer stops consuming before the decoder
\* finishes, the text accumulated so far is never appended.
C30_AppendedOnlyAfterStop ==
    /\ pc \in {"streaming", "yielded", "abandoned"} =>
            /\ ended = "none"
            /\ appended = <<>>
            /\ messages = loaded
            /\ disk = IF loaded = <<>> THEN Absent ELSE File(loaded)
    /\ appended # <<>> => (pc = "parsed" /\ ended # "none")

\* The consumer stopped after two increments: nothing was appended.
C30_Witness ==
    /\ pc = "abandoned"
    /\ yielded = << <<"H", "e", "l">>, <<"l", "o">> >>
    /\ assistant_message = <<"H", "e", "l", "l", "o">>
    /\ appended = <<>>
    /\ messages = loaded

\* An increment has been yielded and the decoder has not stopped.
C30_WitnessYielding ==
    /\ pc = "yielded"
    /\ Len(yielded) = 2
    /\ appended = <<>>

(***************************************************************************)
(* Claims about the log of a session (checked under SpecSession)           *)
(***************************************************************************)

\* The step is a completed add_message whose save ended as io says.
StepAdds(io) ==
    /\ appended' # <<>>
    /\ \E adv \in Advances :
        AddMessage(appended'[Len(appended')].role, appended'[Len(appended')].content,
                   adv, io)

\* The step is a completed clear_history whose save ended as io says.
StepClears(io) ==
    \E adv1 \in Advances, copy \in {"ok", "copy_fails"}, adv2 \in Advances :
        ClearHistory(adv1, copy, adv2, io)

\* save_json_file returned True.
SaveSucceeded == {"ok", "copy_fails"}

\* C31: the in-memory log changes only in a step that is an add_message or
\* a clear_history, and after every such step whose save succeeded the
\* history file holds exactly the in-memory log.
C31_LogChangesOnlyBySavingOperations ==
    [][ /\ messages' # messages => \E io \in SaveOutcomes : StepAdds(io) \/ StepClears(io)
        /\ \A io \in SaveSucceeded :
                (StepAdds(io) \/ StepClears(io)) => disk' = File(messages')
      ]_vars

\* After a clear and a turn that appended two messages, each saved, the
\* file holds the log of the session.
C31_Witness ==
    /\ clears # <<>>
    /\ Len(appended) = 2
    /\ messages # <<>>
    /\ disk = File(messages)
    /\ backups # <<>>

\* The same with the cap at one message: the file holds the one message kept.
C31_WitnessEvicted ==
    /\ max_history_size = 1
    /\ Len(appended) = 2
    /\ disk = File(<<appended[2]>>)

\* The messages loaded or appended since the last clear_history, in order.
SinceLastClear ==
    IF clears = <<>>
        THEN loaded \o appended
        ELSE SubSeq(appended, LastClear.at + 1, Len(appended))

\* s is what is left of t after messages were removed from its front.
IsSuffix(s, t) ==
    /\ Len(s) <= Len(t)
    /\ s = SubSeq(t, Len(t) - Len(s) + 1, Len(t))

\* C32: at every state the log is a contiguous suffix of the messages
\* loaded or appended since the last clear, each with the role, content and
\* timestamp it was given: messages are never changed or reordered, and leave
\* the log only from the front or all at once.
C32_LogIsSuffixOfWhatWasAdded ==
    IsSuffix(messages, SinceLastClear)

\* With the cap at one message, two loaded messages and the user's message
\* have left the log from the front: the assistant's message is what is left.
C32_Witness ==
    /\ max_history_size = 1
    /\ Len(loaded) = 2
    /\ Len(appended) = 2
    /\ clears = <<>>
    /\ messages = <<appended[2]>>

\* A message appended after a clear: the log holds it and nothing older.
C32_WitnessCleared ==
    /\ clears # <<>>
    /\ LastClear.log0 # <<>>
    /\ Len(appended) = 1
    /\ messages = appended

(***************************************************************************)
(* Claims about the cap of the loaded log (checked under SpecStore)        *)
(***************************************************************************)

\* C33: in every state after agent start, the state right after loading
\* included and for every configuration the agent accepts, the log holds at
\* most max_history_size messages.
C33_LogWithinCap ==
    Len(messages) <= max_history_size

\* The same for the logs that add_message has capped with a positive cap.
C33_LogWithinCapOnceCapped ==
    (appended # <<>> /\ max_history_size > 0) => Len(messages) <= max_history_size

(***************************************************************************)
(* Claims about how the history file is replaced (checked under SpecStore) *)
(***************************************************************************)

\* C34: a save replaces history.json atomically: whatever happens during
\* it, afterwards the file holds the complete version it held before or the
\* complete new one, never an empty or partial one.
C34_SaveReplacesAtomically ==
    [][ \/ disk' = disk
        \/ disk' = File(messages')
      ]_vars

\* What does hold: a file that is neither the old nor the new version is
\* one that open(..., 'w') has truncated and json.dump has not completed.
C34_SaveLeavesOldNewOrPartial ==
    [][ \/ disk' = disk
        \/ disk' = File(messages')
        \/ disk' = Partial
      ]_vars

(***************************************************************************)
(* Claims about the backups of config.yaml (checked under SpecConfig)      *)
(***************************************************************************)

\* C35: every save that overwrites an existing config.yaml first stores a
\* backup of the version it replaces.
C35_ConfigBackedUpBeforeOverwrite ==
    [][ (config_file.state # "absent" /\ config_file' # config_file)
            => HasBackupOf(backups', config_file)
      ]_vars

\* What does hold: no step of the program adds a file to the backups
\* directory for a save of config.yaml.
C35_ConfigSavedWithoutBackup ==
    [][ config_file' # config_file => backups' = backups ]_vars

(***************************************************************************)
(* Claims about the single pass and the search order of file inclusion     *)
(* (checked under SpecCall)                                                *)
(***************************************************************************)

\* Whether a placeholder names a missing file or a file is decided without
\* meeting a path that cannot be examined.
Determined(name) ==
    Missing(name) \/ \E i \in 1..Len(search_paths) : ResolvesAt(i, name)

\* What stands for the placeholder {name} in the result.
Replacement(name) ==
    IF Missing(name) THEN NotFoundMarker(name)
    ELSE LET i == CHOOSE j \in 1..Len(search_paths) : ResolvesAt(j, name)
         IN IncludeFile(name, Stat(args.fs, search_paths[i], name))

TwoPlaceholders ==
    OnePlaceholder(NoText, APy, NoText) \o OnePlaceholder(NoText, BBin, NoText)

\* "{{a.py}}": the match is "{{a.py}", the name "{a.py".
BracedPlaceholder == <<"{">> \o OnePlaceholder(NoText, APy, NoText) \o <<"}">>

\* C36: file inclusion is one pass over the original text: each of its
\* placeholders is replaced exactly once, and a placeholder that stands in
\* an included file's content or in an inserted marker is left as it is.
C36_SinglePass ==
    Included =>
        /\ \A pre \in Prefixes, name \in FileNames, post \in Suffixes :
            (args.content = OnePlaceholder(pre, name, post) /\ Determined(name))
                => ret = Returns(pre \o Replacement(name) \o post)
        /\ (args.content = TwoPlaceholders /\ Determined(APy) /\ Determined(BBin))
                => ret = Returns(Replacement(APy) \o Replacement(BBin))
        /\ args.content = BracedPlaceholder
                => ret = Returns(NotFoundMarker(<<"{">> \o APy) \o <<"}">>)

\* a.py holds the text {b.bin}: the result holds it unresolved, after the
\* header of a.py.
C36_Witness ==
    /\ Included
    /\ args.content = OnePlaceholder(<<"s", "e", "e", " ">>, APy, <<"!">>)
    /\ ret.kind = "return"
    /\ ret = Returns(<<"s", "e", "e", " ", "# File: ", "a", ".", "p", "y", " (",
                       ".", "p", "y", ")", "\n", "{", "b", ".", "b", "i", "n", "}", "!">>)

\* The marker put for "{{a.py}" is followed by "}": the result holds a
\* placeholder that was not in the text, unresolved.
C36_WitnessMarker ==
    /\ Included
    /\ args.content = BracedPlaceholder
    /\ ret.kind = "return"
    /\ ret = Returns(<<"[ERROR: File ", "{", "a", ".", "p", "y", " not found]", "}">>)

\* Both placeholders of a text were replaced, each by its own file's outcome.
C36_WitnessTwo ==
    /\ Included
    /\ args.content = TwoPlaceholders
    /\ ret.kind = "return"
    /\ ret = Returns(<<"# File: ", "a", ".", "p", "y", " (", ".", "p", "y", ")", "\n",
                       "d", "a", "t", "a",
                       "[WARNING: Unsupported file type ", "b", ".", "b", "i", "n", "]">>)

\* C37: a placeholder is resolved from the first search directory that
\* holds a file of that name: that file alone decides the outcome (its
\* content, the too-large marker, the unsupported-type marker), whatever the
\* later directories hold and also when that file is rejected.
C37_FirstDirectoryDecides ==
    Included =>
        \A pre \in Prefixes, name \in FileNames, post \in Suffixes,
           i \in 1..Len(search_paths) :
            (args.content = OnePlaceholder(pre, name, post) /\ ResolvesAt(i, name))
                => ret = Returns(pre
                                 \o IncludeFile(name, Stat(args.fs, search_paths[i], name))
                                 \o post)

\* ./a.py is too large and src/a.py is not: the marker of ./a.py is the
\* outcome.
C37_Witness ==
    /\ Included
    /\ args.content = OnePlaceholder(NoText, APy, <<"!">>)
    /\ Stat(args.fs, search_paths[1], APy).size > max_size
    /\ Stat(args.fs, search_paths[2], APy) = Entry("file", 4, TRUE, FileContent)
    /\ ret.kind = "return"
    /\ ret = Returns(TooLargeMarker(APy) \o <<"!">>)

\* ./a.py is a directory: the file src/a.py is the first file of that name.
C37_WitnessSecond ==
    /\ Included
    /\ args.content = OnePlaceholder(NoText, APy, <<"!">>)
    /\ KindAt(1, APy) = "dir"
    /\ ret.kind = "return"
    /\ ret = Returns(FileInfo(APy) \o FileContent \o <<"!">>)

(***************************************************************************)
(* Claims about what a turn appends (checked under SpecSession)            *)
(***************************************************************************)

\* The last message of the log is the user's message of the turn.
UserMessageIsLast ==
    /\ Len(appended) = 1
    /\ appended[1].role = "user"
    /\ messages # <<>>
    /\ messages[Len(messages)] = appended[1]

\* The turn has ended without content from the model: call_api has yielded
\* its failure text, the whole response had no content or could not be
\* parsed, or the streamed response held no text that is not blank.
EndedWithoutContent ==
    \/ pc = "failed"
    \/ pc = "parsed" /\ ~payload.stream /\ IsFailureText(chunks[1])
    \/ pc = "parsed" /\ payload.stream /\ ~HasText(assistant_message)

\* C38: a turn appends one user message, holding the text as it was given
\* to call_api, before any POST is issued; it appends at most one message
\* more, the assistant's, when the response has been parsed; a turn that
\* fails or yields no content leaves its user message as the last message
\* of the log.
C38_TurnAppendsUserThenAssistant ==
    [][ /\ (turn = Nothing /\ turn' # Nothing) =>
                /\ Len(appended') = Len(appended) + 1
                /\ appended'[Len(appended')].role = "user"
                /\ appended'[Len(appended')].content = turn'.new_message
                /\ calls' = <<>>
        /\ Len(calls') > Len(calls) =>
                /\ turn # Nothing
                /\ Len(appended) = 1
                /\ appended[1].role = "user"
        /\ (turn # Nothing /\ appended' # appended) =>
                /\ Len(appended) = 1
                /\ Len(appended') = 2
                /\ appended'[2].role = "assistant"
                /\ result.kind = "response"
                /\ pc' = "parsed"
        /\ EndedWithoutContent' => UserMessageIsLast'
      ]_vars

\* The turn failed with the authorization error: the log of an earlier
\* session ended with a user message and now ends with two of them.
C38_Witness ==
    /\ pc = "failed"
    /\ result.exc.msg = "Invalid API key"
    /\ Len(messages) = 2
    /\ messages[1].role = "user"
    /\ messages[2].role = "user"
    /\ messages[2].content = <<"{", "a", ".", "p", "y", "}">>

\* A turn with a streamed response appended the user's and the assistant's
\* message.
C38_WitnessAnswered ==
    /\ pc = "parsed"
    /\ Len(appended) = 2
    /\ appended[2].role = "assistant"
    /\ appended[2].content = <<"H", "e", "l", "!">>

(***************************************************************************)
(* Claims about the new message in the payload (checked under SpecTurn)    *)
(***************************************************************************)

\* The elements of the payload's list before its final one are the system
\* prompt, if one is configured, and the messages of a suffix of the log
\* as it was before the turn.
EarlierElementsAreTheOldLog ==
    LET ms == payload.messages
        sys == IF config.system_prompt # NoText
                  THEN <<WireMessage("system", config.system_prompt)>>
                  ELSE <<>>
    IN \E k \in 0..Len(turn.log0) :
          SubSeq(ms, 1, Len(ms) - 1) =
              sys \o HistoryMessages(SubSeq(turn.log0, k + 1, Len(turn.log0)))

\* C39: in the payload call_api sends, the new user message occurs once,
\* as the final element of the list and with its placeholders resolved:
\* the elements before it come from the log of before the turn.
C39_NewMessageOnceAndLast ==
    (InTurn /\ payload # Nothing) =>
        /\ payload.messages[Len(payload.messages)] =
              WireMessage("user", ProcessFileInclusions(turn.fs, turn.new_message).value)
        /\ EarlierElementsAreTheOldLog

\* What holds instead: the final element is the resolved message, and the
\* one before it is the same message unresolved, read from the log.
C39_NewMessageTwice ==
    (InTurn /\ payload # Nothing) =>
        /\ payload.messages[Len(payload.messages)] =
              WireMessage("user", ProcessFileInclusions(turn.fs, turn.new_message).value)
        /\ Len(payload.messages) >= 2
        /\ payload.messages[Len(payload.messages) - 1] =
              WireMessage("user", turn.new_message)

(***************************************************************************)
(* Claims about the end of the session loop (checked under SpecSession)    *)
(***************************************************************************)

\* interactive_chat has been left: by break, or by an exception that no
\* handler of the loop caught.
LoopLeft == {"exit", "unwound"}

\* One of the loop's two except handlers is running.
InHandler == {"interrupted", "caught", "abandoned"}

\* This step handles a line whose command is quit, exit or q.
QuitEntered ==
    /\ pc = "idle"
    /\ pc' = "exit"
    /\ args'.user_input \in { <<"/", "q", "u", "i", "t">>, <<"/", "e", "x", "i", "t">>,
                              <<"/", "Q">> }

\* A line that, stripped, starts with "/" issues no POST and appends no
\* message: the line a turn is started for never starts with "/", and the
\* step that handles any other line leaves the calls and the appended
\* messages as they are and ends in the loop, in its handler or at break.
SlashIsLocal ==
    /\ (turn = Nothing /\ turn' # Nothing) =>
            /\ turn'.new_message # <<>>
            /\ Head(turn'.new_message) # "/"
    /\ (pc = "idle" /\ args' # args /\ turn' = turn) =>
            /\ calls' = calls
            /\ appended' = appended
            /\ pc' \in {"handled", "caught", "exit"}
    /\ (pc = "idle" /\ pc' \in {"request", "raised"}) => turn' # turn

\* C40: the session loop ends only when the user enters /quit, /exit or
\* /q: after a failed turn, after an exception raised while an input was
\* handled and after a keyboard interrupt the next step is the prompt; a
\* line starting with "/" issues no HTTP call and appends no message.
C40_LoopEndsOnlyOnQuit ==
    [][ /\ (pc \notin LoopLeft /\ pc' \in LoopLeft) => QuitEntered
        /\ pc \in {"failed"} \cup InHandler => pc' = "idle"
        /\ SlashIsLocal
      ]_vars

\* C40, amended: the session loop ends only when the user enters /quit,
\* /exit or /q, or when a keyboard interrupt arrives while one of the
\* loop's except handlers is running; after a failed turn the next step
\* is the prompt, an exception or interrupt raised inside the try block is
\* handled and followed by the prompt unless the handler is interrupted; a
\* line starting with "/" issues no HTTP call and appends no message.
C40_LoopEndsOnQuitOrInterruptedHandler ==
    [][ /\ (pc \notin LoopLeft /\ pc' \in LoopLeft) =>
                \/ QuitEntered
                \/ pc \in InHandler /\ pc' = "unwound"
        /\ pc = "failed" => pc' = "idle"
        /\ pc \in InHandler => pc' \in {"idle", "unwound"}
        /\ SlashIsLocal
      ]_vars

\* After a turn that appended only the user's message, the loop was ended
\* with /exit typed between blanks.
C40_Witness ==
    /\ pc = "exit"
    /\ turn # Nothing
    /\ Len(appended) = 1
    /\ args.user_input = <<"/", "e", "x", "i", "t">>

\* The bare "/" raised IndexError, which the loop's handler caught.
C40_WitnessBareSlash ==
    /\ pc = "caught"
    /\ args.user_input = <<"/">>
    /\ ret = Raises("IndexError")
    /\ appended = <<>>

\* A second interrupt arrived while the handler of the first was running.
C40_WitnessUnwound ==
    /\ pc = "unwound"
    /\ ret = Nothing

====
